---------------------------- MODULE Spec2Model ----------------------------
(***************************************************************************)
(* libcompose (hyper fork): the Service / Container reconciliation engine  *)
(* of docker/service.go and docker/container.go over a container runtime.  *)
(*                                                                         *)
(* One project, one service, one caller (the single writer of spec 5).     *)
(* The runtime is the set of container records it holds; the engine keeps  *)
(* no state of its own but the service's configuration.  Every runtime     *)
(* call of a step is numbered, and the step's fault index names the call   *)
(* that fails (0: none).                                                   *)
(***************************************************************************)
EXTENDS Integers, Sequences, FiniteSets, TLC

VARIABLES
    rt,             \* runtime: container ID -> container record
    images,         \* runtime: image name -> image ID, 0 when not found locally
    serviceConfig,  \* Service.serviceConfig, the *config.ServiceConfig it points to
    pc,             \* position of the caller
    loc,            \* locals of the operation under way
    tasks,          \* the goroutines of the fan-out under way
    calls,          \* runtime calls issued by the caller's goroutine in this operation
    events,         \* ContainerCreated events notified in this operation
    failed,         \* a runtime call has failed during this operation
    ret,            \* what the operation returned
    faultsLeft,     \* runtime calls that may still fail of themselves
    initial         \* the runtime and the configuration the operation started from

vars == <<rt, images, serviceConfig, pc, loc, tasks, calls, events, failed, ret, faultsLeft, initial>>

---------------------------------------------------------------------------
\* Bounds of the model

MaxContainers == 2   \* containers of the service the runtime holds at the start
MaxSpare == 2        \* container IDs the runtime can hand out beyond those
MaxScale == 2        \* largest Scale target
MaxFaults == 1       \* runtime calls that fail of themselves during one operation
MaxFault == 10       \* largest index of a failing runtime call within one step

Ids == 1..(MaxContainers + 1 + MaxSpare)
Nil == 0

\* The declared configurations a Service can be constructed with
ConfigA == [Image |-> "img", Command |-> "a", Tty |-> FALSE, StdinOpen |-> FALSE, ContainerName |-> ""]
ConfigB == [Image |-> "img", Command |-> "c", Tty |-> FALSE, StdinOpen |-> FALSE, ContainerName |-> ""]
ConfigC == [Image |-> "img2", Command |-> "a", Tty |-> FALSE, StdinOpen |-> FALSE, ContainerName |-> ""]
Configs == {ConfigA, ConfigB, ConfigC}
ImageNames == {"img", "img2", "proj_web", ""}
RunCommands == {"b"}

ServiceName == "web"
ProjectName == "proj"

---------------------------------------------------------------------------
\* Decimal strings of the instance-number label

DigitChars == <<"0", "1", "2", "3", "4", "5", "6", "7", "8", "9">>

RECURSIVE Itoa(_)
Itoa(n) == IF n < 10 THEN <<DigitChars[n + 1]>>
           ELSE Itoa(n \div 10) \o <<DigitChars[(n % 10) + 1]>>

DigitValue(ch) == IF \E d \in 1..10 : DigitChars[d] = ch
                  THEN (CHOOSE d \in 1..10 : DigitChars[d] = ch) - 1
                  ELSE -1

RECURSIVE AtoiDigits(_, _)
AtoiDigits(s, acc) ==
    IF s = <<>> THEN [ok |-> TRUE, val |-> acc]
    ELSE IF DigitValue(Head(s)) < 0 THEN [ok |-> FALSE, val |-> 0]
    ELSE AtoiDigits(Tail(s), acc * 10 + DigitValue(Head(s)))

Atoi(s) ==
    IF s = <<>> THEN [ok |-> FALSE, val |-> 0]
    ELSE IF Head(s) \in {"+", "-"}
         THEN IF Tail(s) = <<>> THEN [ok |-> FALSE, val |-> 0]
              ELSE LET r == AtoiDigits(Tail(s), 0)
                   IN  [ok |-> r.ok, val |-> IF Head(s) = "-" THEN 0 - r.val ELSE r.val]
         ELSE AtoiDigits(s, 0)

---------------------------------------------------------------------------
\* The world an operator acts on, and what it returns

World == [rt |-> rt, images |-> images, cfg |-> serviceConfig,
          calls |-> <<>>, events |-> 0, failed |-> FALSE, ncalls |-> 0, fault |-> 0]

WorldWith(f) == [World EXCEPT !.fault = f]

R(w, err, val) == [w |-> w, err |-> err, val |-> val]

\* "if err != nil { return ..., err }": the rest runs only when r carries no error
Try(r, errval, rest(_)) == IF r.err # "nil" THEN R(r.w, r.err, errval) ELSE rest(r)

Let(x, rest(_)) == rest(x)

\* One runtime call: it is numbered and logged; it fails when its number is the fault
Call(w, kind, arg) ==
    [w EXCEPT !.ncalls = @ + 1,
              !.calls = Append(@, <<kind, arg>>),
              !.failed = @ \/ (w.ncalls + 1 = w.fault)]

Faulted(w) == w.ncalls = w.fault

Refused(w) == [w EXCEPT !.failed = TRUE]

IdByName(rtv, name) ==
    IF \E id \in DOMAIN rtv : rtv[id].name = name
    THEN CHOOSE id \in DOMAIN rtv : rtv[id].name = name
    ELSE Nil

FreeId(rtv) == IF Ids \ DOMAIN rtv = {} THEN Nil
               ELSE CHOOSE id \in Ids \ DOMAIN rtv : \A o \in Ids \ DOMAIN rtv : id <= o

Without(rtv, id) == [i \in DOMAIN rtv \ {id} |-> rtv[i]]

With(rtv, id, rec) == [i \in DOMAIN rtv \cup {id} |-> IF i = id THEN rec ELSE rtv[i]]

---------------------------------------------------------------------------
\* The runtime client (external collaborator, spec 6)

\* GetContainer(client, name): inspect by name; nil, not an error, when not found
GetContainer(w, name) ==
    LET w1 == Call(w, "inspect", name)
    IN  IF Faulted(w1) THEN R(w1, "fault", Nil)
        ELSE R(w1, "nil", IdByName(w1.rt, name))

\* client.ContainerInspect(id)
ContainerInspect(w, id) ==
    LET w1 == Call(w, "inspectID", id)
    IN  IF Faulted(w1) THEN R(w1, "fault", Nil)
        ELSE IF id \notin DOMAIN w1.rt THEN R(Refused(w1), "notfound", Nil)
        ELSE R(w1, "nil", id)

\* client.ContainerCreate: the runtime refuses a name in use and an unknown image
ContainerCreate(w, name, rec) ==
    LET w1 == Call(w, "create", name)
        id == FreeId(w1.rt)
    IN  IF Faulted(w1) THEN R(w1, "fault", Nil)
        ELSE IF IdByName(w1.rt, name) # Nil THEN R(Refused(w1), "conflict", Nil)
        ELSE IF w1.images[rec.image] = 0 THEN R(Refused(w1), "noimage", Nil)
        ELSE IF id = Nil THEN R(Refused(w1), "fault", Nil)
        ELSE R([w1 EXCEPT !.rt = With(@, id, [rec EXCEPT !.imageID = w1.images[rec.image]])],
               "nil", id)

\* client.ContainerRename
ContainerRename(w, id, newName) ==
    LET w1 == Call(w, "rename", id)
    IN  IF Faulted(w1) THEN R(w1, "fault", Nil)
        ELSE IF IdByName(w1.rt, newName) # Nil THEN R(Refused(w1), "conflict", Nil)
        ELSE R([w1 EXCEPT !.rt[id].name = newName], "nil", id)

\* client.ContainerRemove with Force: true
ContainerRemove(w, id, removeVolumes) ==
    LET w1 == Call(w, "remove", <<id, removeVolumes>>)
    IN  IF Faulted(w1) THEN R(w1, "fault", Nil)
        ELSE R([w1 EXCEPT !.rt = Without(@, id)], "nil", id)

\* client.ContainerStop
ContainerStop(w, id) ==
    LET w1 == Call(w, "stop", id)
    IN  IF Faulted(w1) THEN R(w1, "fault", Nil)
        ELSE R([w1 EXCEPT !.rt[id].running = FALSE, !.rt[id].paused = FALSE], "nil", id)

\* client.ContainerStart
ContainerStart(w, id) ==
    LET w1 == Call(w, "start", id)
    IN  IF Faulted(w1) THEN R(w1, "fault", Nil)
        ELSE IF id \notin DOMAIN w1.rt THEN R(Refused(w1), "notfound", Nil)
        ELSE R([w1 EXCEPT !.rt[id].running = TRUE], "nil", id)

\* client.ContainerPause: the runtime pauses a running container that is not paused
ContainerPause(w, id) ==
    LET w1 == Call(w, "pause", id)
    IN  IF Faulted(w1) THEN R(w1, "fault", Nil)
        ELSE IF ~w1.rt[id].running \/ w1.rt[id].paused THEN R(Refused(w1), "conflict", Nil)
        ELSE R([w1 EXCEPT !.rt[id].paused = TRUE], "nil", id)

\* client.ContainerUnpause: the runtime resumes a paused container
ContainerUnpause(w, id) ==
    LET w1 == Call(w, "unpause", id)
    IN  IF Faulted(w1) THEN R(w1, "fault", Nil)
        ELSE IF ~w1.rt[id].paused THEN R(Refused(w1), "conflict", Nil)
        ELSE R([w1 EXCEPT !.rt[id].paused = FALSE], "nil", id)

\* client.ContainerKill: the runtime signals a running container
ContainerKill(w, id) ==
    LET w1 == Call(w, "kill", id)
    IN  IF Faulted(w1) THEN R(w1, "fault", Nil)
        ELSE IF ~w1.rt[id].running THEN R(Refused(w1), "conflict", Nil)
        ELSE R([w1 EXCEPT !.rt[id].running = FALSE, !.rt[id].paused = FALSE], "nil", id)

\* client.ContainerRestart
ContainerRestart(w, id) ==
    LET w1 == Call(w, "restart", id)
    IN  IF Faulted(w1) THEN R(w1, "fault", Nil)
        ELSE IF id \notin DOMAIN w1.rt THEN R(Refused(w1), "notfound", Nil)
        ELSE R([w1 EXCEPT !.rt[id].running = TRUE, !.rt[id].paused = FALSE], "nil", id)

\* client.ImageInspectWithRaw: the image ID, or the not-found error
ImageInspectWithRaw(w, image) ==
    LET w1 == Call(w, "imageInspect", image)
    IN  IF Faulted(w1) THEN R(w1, "fault", 0)
        ELSE IF w1.images[image] = 0 THEN R(w1, "imagenotfound", 0)
        ELSE R(w1, "nil", w1.images[image])

---------------------------------------------------------------------------
\* docker/container.go

\* config.GetServiceHash(name, config): a digest of every field of the configuration
GetServiceHash(name, cfg) ==
    <<name, cfg.Image, cfg.Command, cfg.Tty, cfg.StdinOpen, cfg.ContainerName>>

getHash(w) == GetServiceHash(ServiceName, w.cfg)

NewContainer(name, number) == [name |-> name, number |-> number, oneOff |-> FALSE]

NewOneOffContainer(name, number) == [NewContainer(name, number) EXCEPT !.oneOff = TRUE]

NoOverride == [nil |-> TRUE]

Override(cmd) == [nil |-> FALSE, Command |-> cmd, Tty |-> TRUE, StdinOpen |-> TRUE]

findExisting(w, c) == GetContainer(w, c.name)

\* serviceConfig := c.service.serviceConfig is a pointer: the override is written
\* through it into the configuration the service holds
OverrideConfig(cfg, override) ==
    IF override.nil THEN cfg
    ELSE [cfg EXCEPT !.Command = override.Command,
                     !.Tty = override.Tty,
                     !.StdinOpen = override.StdinOpen]

\* labels that carry no hash of the configuration
containerConfigNoHash(c, cfg, image) ==
    [name |-> c.name, service |-> ServiceName, project |-> ProjectName,
     hash |-> <<>>,
     oneOff |-> IF c.oneOff THEN "True" ELSE "False",
     number |-> Itoa(c.number), image |-> image, imageID |-> 0,
     command |-> cfg.Command, running |-> FALSE, paused |-> FALSE]

\* the configuration and labels createContainer hands to ContainerCreate
containerConfig(c, cfg, image) ==
    [name |-> c.name, service |-> ServiceName, project |-> ProjectName,
     hash |-> GetServiceHash(ServiceName, cfg),
     oneOff |-> IF c.oneOff THEN "True" ELSE "False",
     number |-> Itoa(c.number), image |-> image, imageID |-> 0,
     command |-> cfg.Command, running |-> FALSE, paused |-> FALSE]

createContainer(w, c, imageName, oldContainer, override) ==
    Let([w EXCEPT !.cfg = OverrideConfig(@, override)], LAMBDA w1 :
    Try(IF oldContainer # Nil THEN ContainerInspect(w1, oldContainer) ELSE R(w1, "nil", Nil),
        Nil, LAMBDA old :
    Try(ContainerCreate(old.w, c.name, containerConfig(c, w1.cfg, imageName)), Nil, LAMBDA cr :
    Try(ContainerInspect(cr.w, cr.val), Nil, LAMBDA g : g))))

Notify(w) == [w EXCEPT !.events = @ + 1]

\* CreateWithOverride without the lookup of an existing container
CreateWithOverrideAlways(w, c, imageName, override) ==
    Try(findExisting(w, c), Nil, LAMBDA e :
    Try(createContainer(e.w, c, imageName, Nil, override), Nil, LAMBDA cr :
    R(Notify(cr.w), "nil", cr.val)))

CreateWithOverride(w, c, imageName, override) ==
    Try(findExisting(w, c), Nil, LAMBDA e :
    IF e.val = Nil
    THEN Try(createContainer(e.w, c, imageName, Nil, override), Nil, LAMBDA cr :
         R(Notify(cr.w), "nil", cr.val))
    ELSE e)

Create(w, c, imageName) == CreateWithOverride(w, c, imageName, NoOverride)

\* name-ID[:12]
RenamedName(name, id) == Append(name, id)

\* Recreate that gives the original its name back when the creation fails
\* Recreate that leaves the renamed original in the runtime
RecreateKeepsOriginal(w, c, imageName) ==
    Try(findExisting(w, c), Nil, LAMBDA e :
    IF e.val = Nil THEN R(e.w, "nil", Nil)
    ELSE IF e.w.rt[e.val].hash = <<>> THEN R(e.w, "nohash", Nil)
    ELSE Try(ContainerRename(e.w, e.val, RenamedName(e.w.rt[e.val].name, e.val)), Nil, LAMBDA rn :
         Try(createContainer(rn.w, c, imageName, e.val, NoOverride), Nil, LAMBDA cr :
         R(cr.w, "nil", cr.val))))

RecreateRollback(w, c, imageName) ==
    Try(findExisting(w, c), Nil, LAMBDA e :
    IF e.val = Nil THEN R(e.w, "nil", Nil)
    ELSE IF e.w.rt[e.val].hash = <<>> THEN R(e.w, "nohash", Nil)
    ELSE Try(ContainerRename(e.w, e.val, RenamedName(e.w.rt[e.val].name, e.val)), Nil, LAMBDA rn :
         Let(createContainer(rn.w, c, imageName, e.val, NoOverride), LAMBDA cr :
         IF cr.err # "nil"
         THEN R(ContainerRename(cr.w, e.val, e.w.rt[e.val].name).w, cr.err, Nil)
         ELSE Try(ContainerRemove(cr.w, e.val, FALSE), Nil, LAMBDA rm :
              R(rm.w, "nil", cr.val)))))

Recreate(w, c, imageName) ==
    Try(findExisting(w, c), Nil, LAMBDA e :
    IF e.val = Nil THEN R(e.w, "nil", Nil)
    ELSE IF e.w.rt[e.val].hash = <<>> THEN R(e.w, "nohash", Nil)
    ELSE Try(ContainerRename(e.w, e.val, RenamedName(e.w.rt[e.val].name, e.val)), Nil, LAMBDA rn :
         Try(createContainer(rn.w, c, imageName, e.val, NoOverride), Nil, LAMBDA cr :
         Try(ContainerRemove(cr.w, e.val, FALSE), Nil, LAMBDA rm :
         R(rm.w, "nil", cr.val)))))

withContainer(w, c, action(_, _)) ==
    Try(findExisting(w, c), Nil, LAMBDA e :
    IF e.val # Nil THEN action(e.w, e.val) ELSE R(e.w, "nil", Nil))

Stop(w, c) == withContainer(w, c, ContainerStop)

\* Delete without the check that the container is not running
DeleteRunning(w, c, removeVolume) ==
    Try(findExisting(w, c), Nil, LAMBDA e :
    IF e.val = Nil THEN R(e.w, "nil", Nil)
    ELSE Try(ContainerInspect(e.w, e.val), Nil, LAMBDA info :
         ContainerRemove(info.w, e.val, removeVolume)))

Delete(w, c, removeVolume) ==
    Try(findExisting(w, c), Nil, LAMBDA e :
    IF e.val = Nil THEN R(e.w, "nil", Nil)
    ELSE Try(ContainerInspect(e.w, e.val), Nil, LAMBDA info :
         IF ~info.w.rt[info.val].running
         THEN ContainerRemove(info.w, e.val, removeVolume)
         ELSE R(info.w, "nil", Nil)))

\* Start(container) reads container.ID first: a nil container is a nil dereference
Start(w, id) == IF id = Nil THEN R(w, "panic", Nil) ELSE ContainerStart(w, id)

PauseAction(w, id) == IF ~w.rt[id].paused THEN ContainerPause(w, id) ELSE R(w, "nil", Nil)

Pause(w, c) == withContainer(w, c, PauseAction)

UnpauseAction(w, id) == IF w.rt[id].paused THEN ContainerUnpause(w, id) ELSE R(w, "nil", Nil)

Unpause(w, c) == withContainer(w, c, UnpauseAction)

Kill(w, c) == withContainer(w, c, ContainerKill)

\* Restart that does not look at what the lookup found
RestartUnchecked(w, c) ==
    Try(findExisting(w, c), Nil, LAMBDA e : ContainerRestart(e.w, e.val))

Restart(w, c) ==
    Try(findExisting(w, c), Nil, LAMBDA e :
    IF e.val = Nil THEN R(e.w, "nil", Nil) ELSE ContainerRestart(e.w, e.val))

\* c.Start(container): the error Start returns is dropped
Up(w, c, imageName) ==
    Try(Create(w, c, imageName), Nil, LAMBDA cr :
    IF ~cr.w.rt[cr.val].running
    THEN R(Start(cr.w, cr.val).w, "nil", Nil)
    ELSE R(cr.w, "nil", Nil))

\* OutOfSync without the comparison of the hash label
OutOfSyncNoHash(w, c, imageName) ==
    Try(findExisting(w, c), FALSE, LAMBDA e :
    IF e.val = Nil THEN R(e.w, "nil", FALSE)
    ELSE IF e.w.rt[e.val].image # imageName THEN R(e.w, "nil", TRUE)
    ELSE Let(ImageInspectWithRaw(e.w, e.w.rt[e.val].image), LAMBDA im :
         IF im.err = "imagenotfound" THEN R(im.w, "nil", FALSE)
         ELSE IF im.err # "nil" THEN R(im.w, im.err, FALSE)
         ELSE R(im.w, "nil", im.val # im.w.rt[e.val].imageID)))

OutOfSync(w, c, imageName) ==
    Try(findExisting(w, c), FALSE, LAMBDA e :
    IF e.val = Nil THEN R(e.w, "nil", FALSE)
    ELSE IF e.w.rt[e.val].image # imageName THEN R(e.w, "nil", TRUE)
    ELSE IF e.w.rt[e.val].hash # getHash(e.w) THEN R(e.w, "nil", TRUE)
    ELSE Let(ImageInspectWithRaw(e.w, e.w.rt[e.val].image), LAMBDA im :
         IF im.err = "imagenotfound" THEN R(im.w, "nil", FALSE)
         ELSE IF im.err # "nil" THEN R(im.w, im.err, FALSE)
         ELSE R(im.w, "nil", im.val # im.w.rt[e.val].imageID)))

---------------------------------------------------------------------------
\* docker/service.go

imageName(cfg) == IF cfg.Image # "" THEN cfg.Image ELSE "proj_web"

RECURSIVE ListOrder(_)
ListOrder(S) == IF S = {} THEN <<>>
                ELSE LET m == CHOOSE x \in S : \A y \in S : x <= y
                     IN  <<m>> \o ListOrder(S \ {m})

\* GetContainersByFilter(client, labels.SERVICE.Eq(...), labels.PROJECT.Eq(...)):
\* the one-off label is no part of the filter
GetContainersByFilter(w, service, project) ==
    LET w1 == Call(w, "list", <<service, project>>)
    IN  IF Faulted(w1) THEN R(w1, "fault", <<>>)
        ELSE R(w1, "nil", ListOrder({id \in DOMAIN w1.rt :
                   w1.rt[id].service = service /\ w1.rt[id].project = project}))

\* GetContainersByFilter(client, {"name": {name}})
GetContainersByName(w, name) ==
    LET w1 == Call(w, "list", name)
    IN  IF Faulted(w1) THEN R(w1, "fault", <<>>)
        ELSE R(w1, "nil", ListOrder({id \in DOMAIN w1.rt : w1.rt[id].name = name}))

\* Container.Info: nothing when the container is gone or the query by name finds none
Info(w, c) ==
    Try(findExisting(w, c), Nil, LAMBDA e :
    IF e.val = Nil THEN R(e.w, "nil", Nil)
    ELSE Try(GetContainersByName(e.w, e.w.rt[e.val].name), Nil, LAMBDA l :
         IF Len(l.val) = 0 THEN R(l.w, "nil", Nil) ELSE R(l.w, "nil", l.val[1])))

RECURSIVE CollectFrom(_, _, _)
CollectFrom(rtv, ids, result) ==
    IF ids = <<>> THEN [err |-> "nil", val |-> result]
    ELSE LET n == Atoi(rtv[Head(ids)].number)
         IN  IF ~n.ok THEN [err |-> "atoi", val |-> <<>>]
             ELSE CollectFrom(rtv, Tail(ids),
                              Append(result, NewContainer(rtv[Head(ids)].name, n.val)))

\* a collection that passes over the records whose number label does not parse
collectContainersSkipping(w) ==
    Try(GetContainersByFilter(w, ServiceName, ProjectName), <<>>, LAMBDA l :
    Let(CollectFrom(l.w.rt, SelectSeq(l.val, LAMBDA id : Atoi(l.w.rt[id].number).ok), <<>>),
        LAMBDA c : R(l.w, c.err, c.val)))

collectContainers(w) ==
    Try(GetContainersByFilter(w, ServiceName, ProjectName), <<>>, LAMBDA l :
    Let(CollectFrom(l.w.rt, l.val, <<>>), LAMBDA c : R(l.w, c.err, c.val)))

\* pullImage: the registry holds image ID 1 under every image reference
pullImage(w, image) ==
    LET w1 == Call(w, "pull", image)
    IN  IF Faulted(w1) THEN R(w1, "fault", Nil)
        ELSE R([w1 EXCEPT !.images[image] = 1], "nil", Nil)

Pull(w) == IF w.cfg.Image = "" THEN R(w, "nil", Nil) ELSE pullImage(w, w.cfg.Image)

imageExists(w) == ImageInspectWithRaw(w, imageName(w.cfg))

\* ensureImageExists that pulls on every error of the image inspection
ensureImageExistsPullOnError(w) ==
    Let(imageExists(w), LAMBDA e :
    IF e.err = "nil" THEN R(e.w, "nil", imageName(e.w.cfg))
    ELSE Let(Pull(e.w), LAMBDA p : R(p.w, p.err, imageName(e.w.cfg))))

ensureImageExists(w) ==
    Let(imageExists(w), LAMBDA e :
    IF e.err = "nil" THEN R(e.w, "nil", imageName(e.w.cfg))
    ELSE IF e.err # "imagenotfound" THEN R(e.w, e.err, "")
    ELSE Let(Pull(e.w), LAMBDA p : R(p.w, p.err, imageName(e.w.cfg))))

\* Namer (docker/name.go): the lowest index no labelled container of the kind uses
NoNamer == [kind |-> "none", name |-> <<>>, oneOff |-> FALSE, used |-> {}]

NewSingleNamer(name) == [kind |-> "single", name |-> <<name>>, oneOff |-> FALSE, used |-> {}]

NewNamer(w, oneOff) ==
    LET w1 == Call(w, "listNamer", oneOff)
        own == {id \in DOMAIN w1.rt : w1.rt[id].service = ServiceName
                                      /\ w1.rt[id].project = ProjectName
                                      /\ w1.rt[id].oneOff = (IF oneOff THEN "True" ELSE "False")}
    IN  IF Faulted(w1) THEN R(w1, "fault", NoNamer)
        ELSE IF \E id \in own : ~Atoi(w1.rt[id].number).ok THEN R(w1, "atoi", NoNamer)
        ELSE R(w1, "nil", [kind |-> "default", name |-> <<>>, oneOff |-> oneOff,
                           used |-> {Atoi(w1.rt[id].number).val : id \in own}])

\* a namer that hands out index 1 whatever it has seen
NextIndexFirst(namer) == 1

NextIndex(namer) == CHOOSE n \in 1..(Cardinality(namer.used) + 1) :
                        n \notin namer.used /\ \A m \in 1..(n - 1) : m \in namer.used

NamerNext(namer) ==
    IF namer.kind = "single"
    THEN [name |-> namer.name, number |-> 1, namer |-> namer]
    ELSE LET n == NextIndex(namer)
         IN  [name |-> <<IF namer.oneOff THEN "run" ELSE "c", n>>, number |-> n,
              namer |-> [namer EXCEPT !.used = @ \cup {n}]]

\* constructContainers that takes no account of the custom container name
constructBeginDefaultNamer(w) ==
    Try(collectContainers(w), [n |-> 0, namer |-> NoNamer], LAMBDA r :
    Let(NewNamer(r.w, FALSE), LAMBDA nm :
    R(nm.w, nm.err, [n |-> Len(r.val), namer |-> nm.val])))

\* constructContainers up to its loop: the containers found and the namer
constructBegin(w) ==
    Try(collectContainers(w), [n |-> 0, namer |-> NoNamer], LAMBDA r :
    IF r.w.cfg.ContainerName # ""
    THEN R(r.w, "nil", [n |-> Len(r.val), namer |-> NewSingleNamer(r.w.cfg.ContainerName)])
    ELSE Let(NewNamer(r.w, FALSE), LAMBDA nm :
         R(nm.w, nm.err, [n |-> Len(r.val), namer |-> nm.val])))

\* a turn of the loop that does not keep the namer it advanced
constructOneSameName(w, namer, image) ==
    Let(NamerNext(namer), LAMBDA nx :
    Let(Create(w, NewContainer(nx.name, nx.number), image), LAMBDA cr :
    R(cr.w, cr.err, namer)))

\* a turn of the loop that goes on to the next instance whatever Create returned
constructOneCarriesOn(w, namer, image) ==
    Let(NamerNext(namer), LAMBDA nx :
    Let(Create(w, NewContainer(nx.name, nx.number), image), LAMBDA cr :
    R(cr.w, "nil", nx.namer)))

\* one turn of the loop of constructContainers
constructOne(w, namer, image) ==
    Let(NamerNext(namer), LAMBDA nx :
    Let(Create(w, NewContainer(nx.name, nx.number), image), LAMBDA cr :
    R(cr.w, cr.err, nx.namer)))

\* recreateIfNeeded that takes no account of forceRecreate
recreateIfNeededUnforced(w, image, c, noRecreate, forceRecreate) ==
    IF noRecreate THEN R(w, "nil", Nil)
    ELSE Try(OutOfSync(w, c, image), Nil, LAMBDA o :
         IF o.val
         THEN Let(Recreate(o.w, c, image), LAMBDA rc : R(rc.w, rc.err, Nil))
         ELSE R(o.w, "nil", Nil))

recreateIfNeeded(w, image, c, noRecreate, forceRecreate) ==
    IF noRecreate THEN R(w, "nil", Nil)
    ELSE Try(OutOfSync(w, c, image), Nil, LAMBDA o :
         IF forceRecreate \/ o.val
         THEN Let(Recreate(o.w, c, image), LAMBDA rc : R(rc.w, rc.err, Nil))
         ELSE R(o.w, "nil", Nil))

\* the closure of Service.up
upAction(w, c, image, create, noRecreate, forceRecreate) ==
    Try(IF create THEN recreateIfNeeded(w, image, c, noRecreate, forceRecreate)
        ELSE R(w, "nil", Nil),
        Nil, LAMBDA rc : Up(rc.w, c, image))

NewTask(c, kind, start) == [c |-> c, kind |-> kind, pc |-> start, tmp |-> 0,
                            err |-> "nil", calls |-> <<>>]

\* a fan-out that leaves out the first container collected
eachContainerButFirst(w, kind, start) ==
    Try(collectContainers(w), <<>>, LAMBDA r :
    R(r.w, "nil", [i \in 1..(Len(r.val) - 1) |-> NewTask(r.val[i + 1], kind, start)]))

\* eachContainer: one goroutine for every container collected
eachContainer(w, kind, start) ==
    Try(collectContainers(w), <<>>, LAMBDA r :
    R(r.w, "nil", [i \in 1..Len(r.val) |-> NewTask(r.val[i], kind, start)]))

---------------------------------------------------------------------------
\* The caller: one operation on a Service constructed over a runtime that holds
\* containers the engine created earlier

Faults == 0..MaxFault

LocIdle == [op |-> "none", arg |-> <<>>, phase |-> "none", scale |-> 0, foundCount |-> 0,
            image |-> "", count |-> 0, n |-> 0, namer |-> NoNamer, create |-> FALSE,
            noRecreate |-> FALSE, forceRecreate |-> FALSE, removeVolume |-> FALSE]

NoRet == [op |-> "none", arg |-> <<>>, err |-> "nil", val |-> <<>>]

\* k containers created by constructContainers under ConfigA from image ID 1, and
\* possibly one container created by Service.Run
Populated(k, running, oneOff) ==
    [id \in 1..(k + IF oneOff THEN 1 ELSE 0) |->
        IF id <= k
        THEN [containerConfig(NewContainer(<<"c", id>>, id), ConfigA, "img")
                 EXCEPT !.imageID = 1, !.running = running]
        ELSE [containerConfig(NewOneOffContainer(<<"run", 1>>, 1),
                              OverrideConfig(ConfigA, Override("b")), "img")
                 EXCEPT !.imageID = 1, !.running = running]]

\* what has happened since: nothing, the service was declared anew (another command,
\* another image reference), the image was replaced under its reference, or removed
Drifts == {"none", "hash", "image", "imageID", "absent"}

DriftConfig(d) == IF d = "hash" THEN ConfigB ELSE IF d = "image" THEN ConfigC ELSE ConfigA

DriftImages(d) == [n \in ImageNames |->
                     IF n = "img" THEN (IF d = "imageID" THEN 2 ELSE IF d = "absent" THEN 0 ELSE 1)
                     ELSE 0]

InitCaller ==
    /\ pc = "idle"
    /\ loc = LocIdle
    /\ tasks = <<>>
    /\ calls = <<>>
    /\ events = 0
    /\ failed = FALSE
    /\ ret = NoRet
    /\ faultsLeft = MaxFaults
    /\ initial = [rt |-> rt, cfg |-> serviceConfig]

Init ==
    /\ \E k \in 0..MaxContainers, running \in BOOLEAN, oneOff \in BOOLEAN :
           rt = Populated(k, running, oneOff)
    /\ \E d \in Drifts : serviceConfig = DriftConfig(d) /\ images = DriftImages(d)
    /\ InitCaller

InitScale ==
    /\ \E k \in 0..MaxContainers, running \in BOOLEAN, oneOff \in BOOLEAN :
           rt = Populated(k, running, oneOff)
    /\ serviceConfig = ConfigA
    /\ images = DriftImages("none")
    /\ InitCaller

\* the world a step starts from
Began(f) == WorldWith(f)

Resumed(f) == [WorldWith(f) EXCEPT !.calls = calls, !.events = events, !.failed = failed]

TaskWorld(i, f) == [WorldWith(f) EXCEPT !.calls = tasks[i].calls, !.events = events,
                                        !.failed = failed]

MayFail(f) == f = 0 \/ faultsLeft > 0

Fired(w) == w.fault > 0 /\ w.ncalls >= w.fault

CommitRuntime(w) ==
    /\ rt' = w.rt
    /\ images' = w.images
    /\ serviceConfig' = w.cfg
    /\ events' = w.events
    /\ failed' = w.failed
    /\ faultsLeft' = IF Fired(w) THEN faultsLeft - 1 ELSE faultsLeft

Commit(w) == CommitRuntime(w) /\ calls' = w.calls

CommitTask(w) == CommitRuntime(w) /\ UNCHANGED calls

Begin(f) == pc = "idle" /\ MayFail(f)

Return(op, arg, err, val) ==
    /\ pc' = "returned"
    /\ loc' = LocIdle
    /\ ret' = [op |-> op, arg |-> arg, err |-> err, val |-> <<val>>]
    /\ UNCHANGED initial

Goto(phase, l) ==
    /\ pc' = phase
    /\ loc' = l
    /\ UNCHANGED <<ret, initial>>

AllDone == \A i \in 1..Len(tasks) : tasks[i].pc = "done"

\* InParallel.Wait: the first error observed, nil when no task failed
WaitErr == IF \E i \in 1..Len(tasks) : tasks[i].err # "nil"
           THEN (CHOOSE e \in {tasks[i].err : i \in 1..Len(tasks)} : e # "nil")
           ELSE "nil"

Step(w, err, next, l, ts) == [w |-> w, err |-> err, next |-> next, loc |-> l, tasks |-> ts]

\* Service.up from its first line to its fan-out
upBegin(w, l) ==
    Let(collectContainers(w), LAMBDA r :
    IF r.err # "nil" THEN Step(r.w, r.err, "return", l, <<>>)
    ELSE IF Len(r.val) = 0 /\ l.create
    THEN Let(constructBegin(r.w), LAMBDA b :
         IF b.err # "nil" THEN Step(b.w, b.err, "return", l, <<>>)
         ELSE Step(b.w, "nil", "construct",
                   [l EXCEPT !.count = 1, !.n = b.val.n, !.namer = b.val.namer], <<>>))
    ELSE Let(eachContainer(r.w, "up", "run"), LAMBDA e :
         IF e.err # "nil" THEN Step(e.w, e.err, "return", l, <<>>)
         ELSE Step(e.w, "nil", "fanout", l, e.val)))

Proceed(op, arg, b) ==
    /\ Commit(b.w)
    /\ tasks' = b.tasks
    /\ IF b.next = "return" THEN Return(op, arg, b.err, Nil) ELSE Goto(b.next, b.loc)

---------------------------------------------------------------------------
\* Service.Scale

ServiceScale(scale, f) ==
    /\ Begin(f)
    /\ LET e == eachContainer(Began(f), "scale", "read")
       IN  /\ Commit(e.w)
           /\ tasks' = e.val
           /\ IF e.err # "nil" THEN Return("Scale", <<scale>>, e.err, Nil)
              ELSE Goto("fanout", [LocIdle EXCEPT !.op = "Scale", !.phase = "scaledown",
                                                  !.scale = scale, !.arg = <<scale>>])

\* foundCount++ is a load and a store of a variable the goroutines share unguarded
ScaleRead(i) ==
    /\ pc = "fanout" /\ i \in 1..Len(tasks) /\ tasks[i].pc = "read"
    /\ tasks' = [tasks EXCEPT ![i].tmp = loc.foundCount, ![i].pc = "write"]
    /\ UNCHANGED <<rt, images, serviceConfig, pc, loc, calls, events, failed, ret, faultsLeft, initial>>

ScaleWrite(i) ==
    /\ pc = "fanout" /\ i \in 1..Len(tasks) /\ tasks[i].pc = "write"
    /\ loc' = [loc EXCEPT !.foundCount = tasks[i].tmp + 1]
    /\ tasks' = [tasks EXCEPT ![i].pc = "cmp"]
    /\ UNCHANGED <<rt, images, serviceConfig, pc, calls, events, failed, ret, faultsLeft, initial>>

ScaleCompare(i) ==
    /\ pc = "fanout" /\ i \in 1..Len(tasks) /\ tasks[i].pc = "cmp"
    /\ tasks' = [tasks EXCEPT ![i].pc = IF loc.foundCount > loc.scale THEN "stop" ELSE "done"]
    /\ UNCHANGED <<rt, images, serviceConfig, pc, loc, calls, events, failed, ret, faultsLeft, initial>>

ScaleStop(i, f) ==
    /\ pc = "fanout" /\ i \in 1..Len(tasks) /\ tasks[i].pc = "stop" /\ MayFail(f)
    /\ LET r == Stop(TaskWorld(i, f), tasks[i].c)
       IN  /\ CommitTask(r.w)
           /\ tasks' = [tasks EXCEPT ![i].calls = r.w.calls, ![i].err = r.err,
                                     ![i].pc = IF r.err # "nil" THEN "done" ELSE "delete"]
    /\ UNCHANGED <<pc, loc, ret, initial>>

ScaleDelete(i, f) ==
    /\ pc = "fanout" /\ i \in 1..Len(tasks) /\ tasks[i].pc = "delete" /\ MayFail(f)
    /\ LET r == Delete(TaskWorld(i, f), tasks[i].c, FALSE)
       IN  /\ CommitTask(r.w)
           /\ tasks' = [tasks EXCEPT ![i].calls = r.w.calls, ![i].err = r.err, ![i].pc = "done"]
    /\ UNCHANGED <<pc, loc, ret, initial>>

\* Scale after its fan-out
ScaleJoin(f) ==
    /\ pc = "fanout" /\ loc.phase = "scaledown" /\ AllDone /\ MayFail(f)
    /\ IF WaitErr # "nil"
       THEN /\ Return("Scale", loc.arg, WaitErr, Nil)
            /\ UNCHANGED <<rt, images, serviceConfig, tasks, calls, events, failed, faultsLeft>>
       ELSE IF loc.foundCount # loc.scale
       THEN LET im == ensureImageExists(Resumed(f))
                b  == constructBegin(im.w)
            IN  IF im.err # "nil"
                THEN Commit(im.w) /\ UNCHANGED tasks /\ Return("Scale", loc.arg, im.err, Nil)
                ELSE IF b.err # "nil"
                THEN Commit(b.w) /\ UNCHANGED tasks /\ Return("Scale", loc.arg, b.err, Nil)
                ELSE /\ Commit(b.w) /\ UNCHANGED tasks
                     /\ Goto("construct", [loc EXCEPT !.phase = "construct", !.image = im.val,
                                                      !.count = loc.scale, !.n = b.val.n,
                                                      !.namer = b.val.namer])
       ELSE Proceed("Scale", loc.arg, upBegin(Resumed(f), [loc EXCEPT !.phase = "up", !.image = "",
                                                                      !.create = FALSE]))

\* the loop of constructContainers, one turn
ConstructStep(f) ==
    /\ pc = "construct" /\ loc.n < loc.count /\ MayFail(f)
    /\ LET r == constructOne(Resumed(f), loc.namer, loc.image)
       IN  /\ Commit(r.w)
           /\ IF r.err # "nil" THEN Return(loc.op, loc.arg, r.err, Nil)
              ELSE Goto("construct", [loc EXCEPT !.n = @ + 1, !.namer = r.val])
    /\ UNCHANGED tasks

\* constructContainers has returned: Scale goes on to s.up("", false), Service.up
\* (from createOne) to its fan-out, Service.Create returns
ConstructDone(f) ==
    /\ pc = "construct" /\ loc.n >= loc.count /\ MayFail(f)
    /\ IF loc.op = "Create"
       THEN Return(loc.op, loc.arg, "nil", Nil)
            /\ UNCHANGED <<rt, images, serviceConfig, tasks, calls, events, failed, faultsLeft>>
       ELSE IF loc.op = "Scale"
       THEN Proceed(loc.op, loc.arg, upBegin(Resumed(f), [loc EXCEPT !.phase = "up", !.image = "",
                                                                     !.create = FALSE]))
       ELSE LET e == eachContainer(Resumed(f), "up", "run")
            IN  /\ Commit(e.w)
                /\ tasks' = e.val
                /\ IF e.err # "nil" THEN Return(loc.op, loc.arg, e.err, Nil)
                   ELSE Goto("fanout", [loc EXCEPT !.phase = "up"])

\* the closure of one goroutine of a fan-out other than Scale's
taskAction(w, t, l) ==
    IF t.kind = "up" THEN upAction(w, t.c, l.image, l.create, l.noRecreate, l.forceRecreate)
    ELSE IF t.kind = "recreate"
         THEN recreateIfNeeded(w, l.image, t.c, l.noRecreate, l.forceRecreate)
    ELSE IF t.kind = "stop" THEN Stop(w, t.c)
    ELSE IF t.kind = "kill" THEN Kill(w, t.c)
    ELSE IF t.kind = "restart" THEN Restart(w, t.c)
    ELSE IF t.kind = "pause" THEN Pause(w, t.c)
    ELSE IF t.kind = "unpause" THEN Unpause(w, t.c)
    ELSE Delete(w, t.c, l.removeVolume)

TaskRun(i, f) ==
    /\ pc = "fanout" /\ i \in 1..Len(tasks) /\ tasks[i].pc = "run" /\ MayFail(f)
    /\ LET r == taskAction(TaskWorld(i, f), tasks[i], loc)
       IN  /\ CommitTask(r.w)
           /\ tasks' = [tasks EXCEPT ![i].calls = r.w.calls, ![i].err = r.err, ![i].pc = "done"]
    /\ UNCHANGED <<pc, loc, ret, initial>>

\* tasks.Wait() returns and the operation returns its error
FanoutJoin ==
    /\ pc = "fanout" /\ loc.phase # "scaledown" /\ AllDone
    /\ Return(loc.op, loc.arg, WaitErr, Nil)
    /\ UNCHANGED <<rt, images, serviceConfig, tasks, calls, events, failed, faultsLeft>>

---------------------------------------------------------------------------
\* The other operations of Service

ServiceUp(noRecreate, forceRecreate, f) ==
    /\ Begin(f)
    /\ LET l  == [LocIdle EXCEPT !.op = "Up", !.arg = <<noRecreate, forceRecreate>>,
                                 !.phase = "up", !.create = TRUE,
                                 !.noRecreate = noRecreate, !.forceRecreate = forceRecreate]
           r  == collectContainers(Began(f))
           im == IF Len(r.val) = 0 \/ ~noRecreate THEN ensureImageExists(r.w)
                 ELSE R(r.w, "nil", imageName(r.w.cfg))
       IN  IF r.err # "nil"
           THEN Commit(r.w) /\ tasks' = <<>> /\ Return("Up", l.arg, r.err, Nil)
           ELSE IF im.err # "nil"
           THEN Commit(im.w) /\ tasks' = <<>> /\ Return("Up", l.arg, im.err, Nil)
           ELSE Proceed("Up", l.arg, upBegin(im.w, [l EXCEPT !.image = im.val]))

ServiceStart(f) ==
    /\ Begin(f)
    /\ Proceed("Start", <<>>, upBegin(Began(f), [LocIdle EXCEPT !.op = "Start", !.phase = "up"]))

ServiceStop(f) ==
    /\ Begin(f)
    /\ LET e == eachContainer(Began(f), "stop", "run")
       IN  /\ Commit(e.w)
           /\ tasks' = e.val
           /\ IF e.err # "nil" THEN Return("Stop", <<>>, e.err, Nil)
              ELSE Goto("fanout", [LocIdle EXCEPT !.op = "Stop", !.phase = "stop"])

ServiceDelete(removeVolume, f) ==
    /\ Begin(f)
    /\ LET e == eachContainer(Began(f), "delete", "run")
       IN  /\ Commit(e.w)
           /\ tasks' = e.val
           /\ IF e.err # "nil" THEN Return("Delete", <<removeVolume>>, e.err, Nil)
              ELSE Goto("fanout", [LocIdle EXCEPT !.op = "Delete", !.phase = "delete",
                                                  !.arg = <<removeVolume>>,
                                                  !.removeVolume = removeVolume])

ServiceCreate(noRecreate, forceRecreate, f) ==
    /\ Begin(f)
    /\ LET l  == [LocIdle EXCEPT !.op = "Create", !.arg = <<noRecreate, forceRecreate>>,
                                 !.phase = "create", !.noRecreate = noRecreate,
                                 !.forceRecreate = forceRecreate]
           r  == collectContainers(Began(f))
           im == ensureImageExists(r.w)
           e  == eachContainer(im.w, "recreate", "run")
           b  == constructBegin(im.w)
       IN  IF r.err # "nil"
           THEN Commit(r.w) /\ tasks' = <<>> /\ Return("Create", l.arg, r.err, Nil)
           ELSE IF im.err # "nil"
           THEN Commit(im.w) /\ tasks' = <<>> /\ Return("Create", l.arg, im.err, Nil)
           ELSE IF Len(r.val) # 0
           THEN /\ Commit(e.w)
                /\ tasks' = e.val
                /\ IF e.err # "nil" THEN Return("Create", l.arg, e.err, Nil)
                   ELSE Goto("fanout", [l EXCEPT !.image = im.val])
           ELSE /\ Commit(b.w)
                /\ tasks' = <<>>
                /\ IF b.err # "nil" THEN Return("Create", l.arg, b.err, Nil)
                   ELSE Goto("construct", [l EXCEPT !.image = im.val, !.count = 1,
                                                    !.n = b.val.n, !.namer = b.val.namer])

\* Container.Run that reads the exit code at once whenever auto-removal is off
RunNoWait(w, c, image, override, autoremove, exited) ==
    Try(createContainer(w, c, image, Nil, override), -1, LAMBDA cr :
    Let(Call(cr.w, "attach", cr.val), LAMBDA at :
    IF Faulted(at) THEN R(at, "fault", -1) ELSE
    Try(ContainerStart(at, cr.val), -1, LAMBDA st :
    Try(ContainerInspect(st.w, cr.val), -1, LAMBDA js :
    IF ~autoremove THEN R([js.w EXCEPT !.rt[cr.val].running = ~exited], "nil", 0) ELSE
    Let(Call(js.w, "wait", cr.val), LAMBDA wt :
    IF Faulted(wt) THEN R(wt, "fault", -1) ELSE
    Try(ContainerInspect([wt EXCEPT !.rt[cr.val].running = FALSE], cr.val), -1, LAMBDA ex :
    R(ex.w, "nil", 0)))))))

\* ContainerWait returns once the container's process has terminated
ContainerWait(w, id) ==
    LET w1 == Call(w, "wait", id)
    IN  IF Faulted(w1) THEN R(w1, "fault", Nil)
        ELSE R([w1 EXCEPT !.rt[id].running = FALSE], "nil", id)

\* Container.Run: create, attach, start, then wait for the exit (auto-removal, or no
\* TTY) or read the exit code at once (TTY), the process having exited by then or not
Run(w, c, image, override, autoremove, exited) ==
    Try(createContainer(w, c, image, Nil, override), -1, LAMBDA cr :
    Let(Call(cr.w, "attach", cr.val), LAMBDA at :
    IF Faulted(at) THEN R(at, "fault", -1) ELSE
    Try(ContainerStart(at, cr.val), -1, LAMBDA st :
    IF autoremove
    THEN Try(ContainerInspect(st.w, cr.val), -1, LAMBDA js :
         Try(ContainerWait(js.w, cr.val), -1, LAMBDA wt :
         Try(ContainerInspect(wt.w, cr.val), -1, LAMBDA ex : R(ex.w, "nil", 0))))
    ELSE IF ~override.Tty
    THEN Try(ContainerWait(st.w, cr.val), -1, LAMBDA wt : R(wt.w, "nil", 0))
    ELSE Try(ContainerInspect(st.w, cr.val), -1, LAMBDA js :
         R([js.w EXCEPT !.rt[cr.val].running = ~exited], "nil", 0)))))

ServiceRun(cmd, autoremove, exited, f) ==
    /\ Begin(f)
    /\ LET r == Try(ensureImageExists(Began(f)), -1, LAMBDA im :
                Try(NewNamer(im.w, TRUE), -1, LAMBDA nm :
                Let(NamerNext(nm.val), LAMBDA nx :
                Run(nm.w, NewOneOffContainer(nx.name, nx.number), im.val, Override(cmd),
                    autoremove, exited))))
       IN  Commit(r.w) /\ Return("Run", <<cmd>>, r.err, r.val)
    /\ tasks' = <<>>

ServiceKill(f) ==
    /\ Begin(f)
    /\ LET e == eachContainer(Began(f), "kill", "run")
       IN  /\ Commit(e.w)
           /\ tasks' = e.val
           /\ IF e.err # "nil" THEN Return("Kill", <<>>, e.err, Nil)
              ELSE Goto("fanout", [LocIdle EXCEPT !.op = "Kill", !.phase = "kill"])

ServiceRestart(f) ==
    /\ Begin(f)
    /\ LET e == eachContainer(Began(f), "restart", "run")
       IN  /\ Commit(e.w)
           /\ tasks' = e.val
           /\ IF e.err # "nil" THEN Return("Restart", <<>>, e.err, Nil)
              ELSE Goto("fanout", [LocIdle EXCEPT !.op = "Restart", !.phase = "restart"])

ServicePause(f) ==
    /\ Begin(f)
    /\ LET e == eachContainer(Began(f), "pause", "run")
       IN  /\ Commit(e.w)
           /\ tasks' = e.val
           /\ IF e.err # "nil" THEN Return("Pause", <<>>, e.err, Nil)
              ELSE Goto("fanout", [LocIdle EXCEPT !.op = "Pause", !.phase = "pause"])

ServiceUnpause(f) ==
    /\ Begin(f)
    /\ LET e == eachContainer(Began(f), "unpause", "run")
       IN  /\ Commit(e.w)
           /\ tasks' = e.val
           /\ IF e.err # "nil" THEN Return("Unpause", <<>>, e.err, Nil)
              ELSE Goto("fanout", [LocIdle EXCEPT !.op = "Unpause", !.phase = "unpause"])

\* the loop of Service.Info
RECURSIVE InfoLoop(_, _, _)
InfoLoop(w, cs, result) ==
    IF cs = <<>> THEN R(w, "nil", result)
    ELSE Try(Info(w, Head(cs)), <<>>, LAMBDA i : InfoLoop(i.w, Tail(cs), Append(result, i.val)))

ServiceInfo(f) ==
    /\ Begin(f)
    /\ LET r == Try(collectContainers(Began(f)), <<>>, LAMBDA cs : InfoLoop(cs.w, cs.val, <<>>))
       IN  Commit(r.w) /\ Return("Info", <<>>, r.err, r.val)
    /\ tasks' = <<>>

ServiceContainersOp(f) ==
    /\ Begin(f)
    /\ LET r == collectContainers(Began(f))
       IN  Commit(r.w) /\ Return("Containers", <<>>, r.err, r.val)
    /\ tasks' = <<>>

---------------------------------------------------------------------------
\* The exported operations of one Container, called on a handle the caller holds:
\* one that Service.Containers returned, or one for a name the namer would give

Handles == {NewContainer(<<"c", n>>, n) : n \in 1..(MaxContainers + 1)}
           \cup {NewContainer(rt[id].name, Atoi(rt[id].number).val) : id \in DOMAIN rt}

ContainerCreateOp(c, f) ==
    /\ Begin(f)
    /\ LET r == Create(Began(f), c, imageName(serviceConfig))
       IN  Commit(r.w) /\ Return("Container.Create", <<c.name>>, r.err, r.val)
    /\ UNCHANGED tasks

ContainerRecreateOp(c, f) ==
    /\ Begin(f)
    /\ LET r == Recreate(Began(f), c, imageName(serviceConfig))
       IN  Commit(r.w) /\ Return("Container.Recreate", <<c.name>>, r.err, r.val)
    /\ UNCHANGED tasks

ContainerDeleteOp(c, removeVolume, f) ==
    /\ Begin(f)
    /\ LET r == Delete(Began(f), c, removeVolume)
       IN  Commit(r.w) /\ Return("Container.Delete", <<c.name, removeVolume>>, r.err, r.val)
    /\ UNCHANGED tasks

ContainerOutOfSyncOp(c, image, f) ==
    /\ Begin(f)
    /\ LET r == OutOfSync(Began(f), c, image)
       IN  Commit(r.w) /\ Return("Container.OutOfSync", <<c.name, image>>, r.err, r.val)
    /\ UNCHANGED tasks

\* Container.Start is handed the record of the container, nil when the caller's
\* lookup found none, or the record of a container that has gone since
Records == 0..MaxContainers

ContainerStartOp(j, f) ==
    /\ Begin(f)
    /\ LET r == Start(Began(f), j)
       IN  Commit(r.w) /\ Return("Container.Start", <<j>>, r.err, r.val)
    /\ UNCHANGED tasks

ContainerStopOp(c, f) ==
    /\ Begin(f)
    /\ LET r == Stop(Began(f), c)
       IN  Commit(r.w) /\ Return("Container.Stop", <<c.name>>, r.err, r.val)
    /\ UNCHANGED tasks

ContainerPauseOp(c, f) ==
    /\ Begin(f)
    /\ LET r == Pause(Began(f), c)
       IN  Commit(r.w) /\ Return("Container.Pause", <<c.name>>, r.err, r.val)
    /\ UNCHANGED tasks

ContainerUnpauseOp(c, f) ==
    /\ Begin(f)
    /\ LET r == Unpause(Began(f), c)
       IN  Commit(r.w) /\ Return("Container.Unpause", <<c.name>>, r.err, r.val)
    /\ UNCHANGED tasks

ContainerKillOp(c, f) ==
    /\ Begin(f)
    /\ LET r == Kill(Began(f), c)
       IN  Commit(r.w) /\ Return("Container.Kill", <<c.name>>, r.err, r.val)
    /\ UNCHANGED tasks

ContainerRestartOp(c, f) ==
    /\ Begin(f)
    /\ LET r == Restart(Began(f), c)
       IN  Commit(r.w) /\ Return("Container.Restart", <<c.name>>, r.err, r.val)
    /\ UNCHANGED tasks

---------------------------------------------------------------------------

Next ==
    \/ \E nr \in BOOLEAN, fr \in BOOLEAN, f \in Faults : ServiceUp(nr, fr, f)
    \/ \E nr \in BOOLEAN, fr \in BOOLEAN, f \in Faults : ServiceCreate(nr, fr, f)
    \/ \E f \in Faults : ServiceStart(f)
    \/ \E f \in Faults : ServiceStop(f)
    \/ \E rv \in BOOLEAN, f \in Faults : ServiceDelete(rv, f)
    \/ \E cmd \in RunCommands, ar \in BOOLEAN, ex \in BOOLEAN, f \in Faults : ServiceRun(cmd, ar, ex, f)
    \/ \E f \in Faults : ConstructStep(f)
    \/ \E f \in Faults : ConstructDone(f)
    \/ \E i \in Ids, f \in Faults : TaskRun(i, f)
    \/ FanoutJoin
    \/ \E c \in Handles, f \in Faults : ContainerCreateOp(c, f)
    \/ \E c \in Handles, f \in Faults : ContainerRecreateOp(c, f)
    \/ \E c \in Handles, rv \in BOOLEAN, f \in Faults : ContainerDeleteOp(c, rv, f)
    \/ \E c \in Handles, im \in ImageNames, f \in Faults : ContainerOutOfSyncOp(c, im, f)

Spec == Init /\ [][Next]_vars

NextScale ==
    \/ \E n \in 0..MaxScale, f \in Faults : ServiceScale(n, f)
    \/ \E i \in Ids : ScaleRead(i)
    \/ \E i \in Ids : ScaleWrite(i)
    \/ \E i \in Ids : ScaleCompare(i)
    \/ \E i \in Ids, f \in Faults : ScaleStop(i, f)
    \/ \E i \in Ids, f \in Faults : ScaleDelete(i, f)
    \/ \E f \in Faults : ScaleJoin(f)
    \/ \E f \in Faults : ConstructStep(f)
    \/ \E f \in Faults : ConstructDone(f)
    \/ \E i \in Ids, f \in Faults : TaskRun(i, f)
    \/ FanoutJoin

SpecScale == InitScale /\ [][NextScale]_vars

\* Scale on a service that has no container yet; the image may still have to be pulled
InitScaleUp ==
    /\ rt = Populated(0, FALSE, FALSE)
    /\ \E d \in {"none", "absent", "image"} :
           serviceConfig = DriftConfig(d) /\ images = DriftImages(d)
    /\ InitCaller

NextScaleUp ==
    \/ \E n \in 0..MaxScale, f \in Faults : ServiceScale(n, f)
    \/ \E f \in Faults : ScaleJoin(f)
    \/ \E f \in Faults : ConstructStep(f)
    \/ \E f \in Faults : ConstructDone(f)
    \/ \E i \in Ids, f \in Faults : TaskRun(i, f)
    \/ FanoutJoin

SpecScaleUp == InitScaleUp /\ [][NextScaleUp]_vars

\* The lifecycle operations, on containers that are stopped, running or paused
ContainerStates == {"stopped", "running", "paused"}

InitLifecycle ==
    /\ \E k \in 0..MaxContainers, st \in ContainerStates :
           rt = [id \in 1..k |-> [Populated(k, st # "stopped", FALSE)[id]
                                     EXCEPT !.paused = (st = "paused")]]
    /\ serviceConfig = ConfigA
    /\ images = DriftImages("none")
    /\ InitCaller

NextLifecycle ==
    \/ \E j \in Records, f \in Faults : ContainerStartOp(j, f)
    \/ \E c \in Handles, f \in Faults : ContainerStopOp(c, f)
    \/ \E c \in Handles, f \in Faults : ContainerPauseOp(c, f)
    \/ \E c \in Handles, f \in Faults : ContainerUnpauseOp(c, f)
    \/ \E c \in Handles, f \in Faults : ContainerKillOp(c, f)
    \/ \E c \in Handles, f \in Faults : ContainerRestartOp(c, f)
    \/ \E f \in Faults : ServiceKill(f)
    \/ \E f \in Faults : ServiceRestart(f)
    \/ \E f \in Faults : ServicePause(f)
    \/ \E f \in Faults : ServiceUnpause(f)
    \/ \E f \in Faults : ServiceInfo(f)
    \/ \E f \in Faults : ServiceContainersOp(f)
    \/ \E i \in Ids, f \in Faults : TaskRun(i, f)
    \/ FanoutJoin

SpecLifecycle == InitLifecycle /\ [][NextLifecycle]_vars

\* A container of the service whose number label is missing or is no decimal integer
BadNumbers == {<<>>, <<"x">>, <<"1", "x">>}

InitLabels ==
    /\ \E k \in 1..MaxContainers, running \in BOOLEAN, b \in 1..MaxContainers, bad \in BadNumbers :
           /\ b <= k
           /\ rt = [Populated(k, running, FALSE) EXCEPT ![b].number = bad]
    /\ serviceConfig = ConfigA
    /\ images = DriftImages("none")
    /\ InitCaller

\* the operations of Service that enumerate its containers
NextLabels ==
    \/ \E nr \in BOOLEAN, fr \in BOOLEAN, f \in Faults : ServiceCreate(nr, fr, f)
    \/ \E nr \in BOOLEAN, fr \in BOOLEAN, f \in Faults : ServiceUp(nr, fr, f)
    \/ \E f \in Faults : ServiceStart(f)
    \/ \E f \in Faults : ServiceStop(f)
    \/ \E f \in Faults : ServiceKill(f)
    \/ \E f \in Faults : ServiceRestart(f)
    \/ \E rv \in BOOLEAN, f \in Faults : ServiceDelete(rv, f)
    \/ \E f \in Faults : ServicePause(f)
    \/ \E f \in Faults : ServiceUnpause(f)
    \/ \E n \in 0..MaxScale, f \in Faults : ServiceScale(n, f)
    \/ \E f \in Faults : ServiceInfo(f)
    \/ \E f \in Faults : ServiceContainersOp(f)

SpecLabels == InitLabels /\ [][NextLabels]_vars

\* Scale on a service declared with a custom container name: the runtime holds no
\* container of it yet, or the one created under that name
ConfigNamed == [ConfigA EXCEPT !.ContainerName = "custom"]

InitNamed ==
    /\ \E k \in 0..1, running \in BOOLEAN :
           rt = [id \in 1..k |->
                    [containerConfig(NewContainer(<<ConfigNamed.ContainerName>>, 1),
                                     ConfigNamed, "img")
                        EXCEPT !.imageID = 1, !.running = running]]
    /\ serviceConfig = ConfigNamed
    /\ \E d \in {"none", "absent"} : images = DriftImages(d)
    /\ InitCaller

SpecNamed == InitNamed /\ [][NextScale]_vars

\* Create, Up and Scale on a service that sets an image reference or leaves it to
\* the build, the image found locally or not
ConfigNoImage == [ConfigA EXCEPT !.Image = ""]

InitImage ==
    /\ \E k \in 0..1, running \in BOOLEAN : rt = Populated(k, running, FALSE)
    /\ serviceConfig \in {ConfigA, ConfigNoImage}
    /\ \E found \in BOOLEAN :
           images = [n \in ImageNames |->
                        IF n = imageName(serviceConfig) /\ found THEN 1 ELSE 0]
    /\ InitCaller

NextImage ==
    \/ \E noRecreate, forceRecreate \in BOOLEAN, f \in Faults :
           ServiceCreate(noRecreate, forceRecreate, f)
    \/ \E noRecreate, forceRecreate \in BOOLEAN, f \in Faults :
           ServiceUp(noRecreate, forceRecreate, f)
    \/ NextScale

SpecImage == InitImage /\ [][NextImage]_vars

\* Container.Run called on a handle, with or without a TTY and auto-removal
ContainerRunOp(c, tty, autoremove, exited, f) ==
    /\ Begin(f)
    /\ LET r == Run(Began(f), c, imageName(serviceConfig),
                    [Override("b") EXCEPT !.Tty = tty], autoremove, exited)
       IN  Commit(r.w) /\ Return("Container.Run", <<c.name, tty, autoremove>>, r.err, r.val)
    /\ UNCHANGED tasks

NextRun ==
    \/ \E c \in Handles, tty, autoremove, exited \in BOOLEAN, f \in Faults :
           ContainerRunOp(c, tty, autoremove, exited, f)
    \/ \E cmd \in RunCommands, autoremove, exited \in BOOLEAN, f \in Faults :
           ServiceRun(cmd, autoremove, exited, f)

SpecRun == InitScale /\ [][NextRun]_vars

\* Two callers run constructContainers on the same service at once (Service.Create
\* with count 1, Scale with its target), each in its own goroutine: tasks holds the
\* two, and a step is what one of them does up to its next runtime call
Callers == 1..2

Caller(count) == [pc |-> "begin", count |-> count, n |-> 0, namer |-> NoNamer, seen |-> {},
                  c |-> NewContainer(<<>>, 0), allocated |-> <<>>, calls |-> <<>>,
                  err |-> "nil"]

InitRace ==
    /\ \E k \in 0..1 : rt = Populated(k, FALSE, FALSE)
    /\ serviceConfig = ConfigA
    /\ images = DriftImages("none")
    /\ pc = "race"
    /\ loc = LocIdle
    /\ \E c1, c2 \in 1..MaxScale : tasks = <<Caller(c1), Caller(c2)>>
    /\ calls = <<>>
    /\ events = 0
    /\ failed = FALSE
    /\ ret = NoRet
    /\ faultsLeft = 0
    /\ initial = [rt |-> rt, cfg |-> serviceConfig]

RaceStep(i, w, t) ==
    /\ CommitTask(w)
    /\ tasks' = [tasks EXCEPT ![i] = [t EXCEPT !.calls = w.calls]]
    /\ UNCHANGED <<pc, loc, ret, initial>>

\* constructContainers up to its loop
RaceBegin(i) ==
    /\ pc = "race" /\ tasks[i].pc = "begin"
    /\ LET b == constructBegin(TaskWorld(i, 0))
       IN  RaceStep(i, b.w,
                    IF b.err # "nil" THEN [tasks[i] EXCEPT !.pc = "done", !.err = b.err]
                    ELSE [tasks[i] EXCEPT !.pc = "next", !.n = b.val.n,
                                          !.namer = b.val.namer, !.seen = b.val.namer.used])

\* the loop's condition and namer.Next()
RaceNext(i) ==
    /\ pc = "race" /\ tasks[i].pc = "next"
    /\ LET nx == NamerNext(tasks[i].namer)
       IN  tasks' = [tasks EXCEPT ![i] =
                       IF @.n >= @.count THEN [@ EXCEPT !.pc = "done"]
                       ELSE [@ EXCEPT !.pc = "find", !.namer = nx.namer,
                                      !.c = NewContainer(nx.name, nx.number),
                                      !.allocated = Append(@, nx.number)]]
    /\ UNCHANGED <<rt, images, serviceConfig, pc, loc, calls, events, failed, ret, faultsLeft, initial>>

\* c.Create: findExisting
RaceFind(i) ==
    /\ pc = "race" /\ tasks[i].pc = "find"
    /\ LET e == findExisting(TaskWorld(i, 0), tasks[i].c)
       IN  RaceStep(i, e.w,
                    IF e.err # "nil" THEN [tasks[i] EXCEPT !.pc = "done", !.err = e.err]
                    ELSE IF e.val = Nil THEN [tasks[i] EXCEPT !.pc = "create"]
                    ELSE [tasks[i] EXCEPT !.pc = "next", !.n = @ + 1])

\* c.Create: createContainer and the ContainerCreated event
RaceCreate(i) ==
    /\ pc = "race" /\ tasks[i].pc = "create"
    /\ LET cr == createContainer(TaskWorld(i, 0), tasks[i].c, imageName(serviceConfig), Nil,
                                 NoOverride)
       IN  IF cr.err # "nil"
           THEN RaceStep(i, cr.w, [tasks[i] EXCEPT !.pc = "done", !.err = cr.err])
           ELSE RaceStep(i, Notify(cr.w), [tasks[i] EXCEPT !.pc = "next", !.n = @ + 1])

NextRace ==
    \/ \E i \in Callers : RaceBegin(i)
    \/ \E i \in Callers : RaceNext(i)
    \/ \E i \in Callers : RaceFind(i)
    \/ \E i \in Callers : RaceCreate(i)

SpecRace == InitRace /\ [][NextRace]_vars

\* Service.Create and Service.Up after a Recreate of the service's container that
\* failed once the original was renamed: at the inspection of the original, at the
\* runtime's create, or at the inspection of the replacement
FailedRecreate(running, f) ==
    Recreate([rt |-> Populated(1, running, FALSE), images |-> DriftImages("none"),
              cfg |-> ConfigB, calls |-> <<>>, events |-> 0, failed |-> FALSE,
              ncalls |-> 0, fault |-> f],
             NewContainer(<<"c", 1>>, 1), "img")

InitRetry ==
    /\ \E running \in BOOLEAN, f \in 3..5 : rt = FailedRecreate(running, f).w.rt
    /\ serviceConfig \in {ConfigA, ConfigB}
    /\ images = DriftImages("none")
    /\ InitCaller

NextRetry ==
    \/ \E noRecreate, forceRecreate \in BOOLEAN, f \in Faults :
           ServiceCreate(noRecreate, forceRecreate, f)
    \/ \E noRecreate, forceRecreate \in BOOLEAN, f \in Faults :
           ServiceUp(noRecreate, forceRecreate, f)
    \/ \E i \in Ids, f \in Faults : TaskRun(i, f)
    \/ FanoutJoin

SpecRetry == InitRetry /\ [][NextRetry]_vars

---------------------------------------------------------------------------
\* config.MergeServicesV1 (merge_v1.go). A RawService is a function from the fields
\* it declares to their values. RawService and RawServiceMap are Go maps, handed
\* around by reference: heap is the sequence of the RawService maps allocated so
\* far and a reference is an index into it.

MaxDepth == 4   \* nested calls of parseV1 followed before the recursion is given up

ComposeFile == "compose.yml"
BaseFile == "base.yml"

Extends(file, service) == [map |-> TRUE, file |-> file, service |-> service]

\* the fields of a base that bar it from being extended
noMerge == <<"links", "volumes_from">>

MergeWorld(heap) == [heap |-> heap, detail |-> <<>>]

Alloc(w, v) == R([w EXCEPT !.heap = Append(@, v)], "nil", Len(w.heap) + 1)

Fail(w, err, detail) == R([w EXCEPT !.detail = detail], err, Nil)

\* yaml.Unmarshal into a RawServiceMap: a new map for every service of the file
RECURSIVE Unmarshal(_, _, _)
Unmarshal(w, raws, datas) ==
    IF DOMAIN raws = DOMAIN datas THEN R(w, "nil", datas)
    ELSE LET n == CHOOSE n \in DOMAIN raws \ DOMAIN datas : TRUE
         IN  Let(Alloc(w, raws[n]), LAMBDA a : Unmarshal(a.w, raws, (n :> a.val) @@ datas))

\* what the resource-lookup collaborator finds under a file name
FilesFound == (BaseFile :> ("A" :> ("image" :> "o" @@ "command" :> "oa")))

\* resourceLookup.Lookup(file, inFile), and the unmarshalling of what it returns
Lookup(w, file) ==
    IF file \notin DOMAIN FilesFound THEN Fail(w, "lookup", [file |-> file])
    ELSE Unmarshal(w, FilesFound[file], <<>>)

\* a new map with the entries of the map cloned
clone(w, ref) == Alloc(w, w.heap[ref])

\* the override rule: the fields of data replace the same-named fields of base
mergeFields(base, data) ==
    [k \in DOMAIN base \cup DOMAIN data |-> IF k \in DOMAIN data THEN data[k] ELSE base[k]]

\* an override rule under which the fields of base are kept
mergeConfigBaseWins(w, baseService, serviceData) ==
    R([w EXCEPT !.heap[baseService] = mergeFields(w.heap[serviceData], @)], "nil", baseService)

\* mergeConfig writes into the map it is given as base and returns that map
mergeConfig(w, baseService, serviceData) ==
    R([w EXCEPT !.heap[baseService] = mergeFields(@, w.heap[serviceData])], "nil", baseService)

NoMergeField(base) ==
    IF \E i \in 1..Len(noMerge) : noMerge[i] \in DOMAIN base
    THEN noMerge[CHOOSE i \in 1..Len(noMerge) :
                    /\ noMerge[i] \in DOMAIN base
                    /\ \A j \in 1..(i - 1) : noMerge[j] \notin DOMAIN base]
    ELSE ""

\* the declarations here carry no env_file: readEnvFile hands back the map it got
readEnvFile(w, serviceData) ==
    IF "env_file" \in DOMAIN w.heap[serviceData] THEN Fail(w, "envfile", <<>>)
    ELSE R(w, "nil", serviceData)

\* parseV1 that merges a base whatever it declares
extendBaseUnchecked(w, baseService, serviceData, service, source) ==
    Try(clone(w, baseService), Nil, LAMBDA c : mergeConfig(c.w, c.val, serviceData))

\* parseV1 whose merge writes into the resolved base itself
extendBaseNoClone(w, baseService, serviceData, service, source) ==
    IF NoMergeField(w.heap[baseService]) # ""
    THEN Fail(w, "noMerge", [service |-> service, source |-> source,
                              field |-> NoMergeField(w.heap[baseService])])
    ELSE mergeConfig(w, baseService, serviceData)

\* the tail of parseV1, from the clone of the resolved base on
extendBase(w, baseService, serviceData, service, source) ==
    Try(clone(w, baseService), Nil, LAMBDA c :
    IF NoMergeField(c.w.heap[c.val]) # ""
    THEN Fail(c.w, "noMerge", [service |-> service, source |-> source,
                                field |-> NoMergeField(c.w.heap[c.val])])
    ELSE mergeConfig(c.w, c.val, serviceData))

\* parseV1; a recursion deeper than MaxDepth stands for one that does not end
RECURSIVE parseV1(_, _, _, _, _, _)
parseV1(w, resourceLookup, inFile, data, datas, fuel) ==
    Try(readEnvFile(w, data), Nil, LAMBDA e :
    IF "extends" \notin DOMAIN e.w.heap[e.val] THEN R(e.w, "nil", e.val)
    ELSE IF ~e.w.heap[e.val]["extends"].map THEN R(e.w, "nil", e.val)
    ELSE IF ~resourceLookup THEN Fail(e.w, "nolookup", [file |-> inFile])
    ELSE IF e.w.heap[e.val]["extends"].service = "" THEN R(e.w, "nil", e.val)
    ELSE IF fuel = 0 THEN Fail(e.w, "overflow", <<>>)
    ELSE Let(e.w.heap[e.val]["extends"], LAMBDA x :
         IF x.file = ""
         THEN IF x.service \in DOMAIN datas
              THEN Try(parseV1(e.w, resourceLookup, inFile, datas[x.service], datas, fuel - 1),
                       Nil, LAMBDA b : extendBase(b.w, b.val, e.val, x.service, inFile))
              ELSE Fail(e.w, "notfound", [service |-> x.service])
         ELSE Try(Lookup(e.w, x.file), Nil, LAMBDA l :
              IF x.service \notin DOMAIN l.val
              THEN Fail(l.w, "notfoundinfile", [service |-> x.service, file |-> x.file])
              ELSE Try(parseV1(l.w, resourceLookup, x.file, l.val[x.service], l.val, fuel - 1),
                       Nil, LAMBDA b : extendBase(b.w, b.val, e.val, x.service, x.file)))))

\* the declarations here set neither a container name nor a scale
validateServiceConstraints(data) ==
    IF "container_name" \in DOMAIN data /\ "scale" \in DOMAIN data THEN "constraint" ELSE "nil"

\* utils.Convert marshals and unmarshals: what it yields shares nothing with its source
RECURSIVE Convert(_, _, _)
Convert(w, datas, out) ==
    IF DOMAIN datas = DOMAIN out THEN R(w, "nil", out)
    ELSE LET n == CHOOSE n \in DOMAIN datas \ DOMAIN out : TRUE
         IN  Let(Alloc(w, w.heap[datas[n]]), LAMBDA a : Convert(a.w, datas, (n :> a.val) @@ out))

\* the files merged: service A, service B and possibly service C
RawA == {("image" :> "x" @@ "command" :> "a"),
         ("image" :> "x" @@ "links" :> "db"),
         ("image" :> "x" @@ "extends" :> Extends(BaseFile, "A"))}

RawB == {("command" :> "b" @@ "tty" :> "t" @@ "extends" :> Extends("", "A")),
         ("command" :> "b" @@ "extends" :> Extends(BaseFile, "A")),
         ("command" :> "b" @@ "extends" :> Extends("", "Z")),
         ("command" :> "b" @@ "extends" :> Extends("", "B")),
         ("command" :> "b")}

RawC == {("image" :> "y" @@ "extends" :> Extends("", "A")),
         ("stdin_open" :> "s" @@ "extends" :> Extends("", "B"))}

RawFiles == {("A" :> a @@ "B" :> b) : a \in RawA, b \in RawB}
            \cup {("A" :> a @@ "B" :> b @@ "C" :> c) : a \in RawA, b \in RawB, c \in RawC}

\* the configurations resolved from the files merged before
ExistingServices == {<<>>, ("A" :> ("command" :> "e" @@ "ports" :> "p")),
                     ("B" :> ("command" :> "e" @@ "ports" :> "p"))}

Values(heap, refs) == [n \in DOMAIN refs |-> heap[refs[n]]]

\* the already-resolved configuration laid over what parseV1 returned
mergeExistingOver(w, existingServices, name, data) ==
    IF name \in DOMAIN existingServices
    THEN Let(Alloc(w, existingServices[name]), LAMBDA x :
         R([x.w EXCEPT !.heap[x.val] = mergeFields(x.w.heap[data], @)], "nil", x.val))
    ELSE R(w, "nil", data)

\* "if serviceConfig, ok := existingServices.Get(name); ok": the configuration is
\* converted to a RawService of its own and what parseV1 returned is merged into it
mergeExisting(w, existingServices, name, data) ==
    IF name \in DOMAIN existingServices
    THEN Let(Alloc(w, existingServices[name]), LAMBDA x : mergeConfig(x.w, x.val, data))
    ELSE R(w, "nil", data)

MergeArg == <<loc.raw, loc.existing, loc.resourceLookup>>

MergeServicesV1(raw, existing, resourceLookup) ==
    /\ pc = "idle"
    /\ LET u == Unmarshal(MergeWorld(<<>>), raw, <<>>)
       IN  Goto("merge", [op |-> "MergeServicesV1", phase |-> "merge", raw |-> raw,
                          existing |-> existing, resourceLookup |-> resourceLookup,
                          heap |-> u.w.heap, datas |-> u.val, todo |-> DOMAIN raw,
                          resolved |-> <<>>])
    /\ UNCHANGED <<rt, images, serviceConfig, tasks, calls, events, failed, faultsLeft>>

\* one turn of "for name, data := range datas", in whatever order the map yields
MergeStep(name) ==
    /\ pc = "merge" /\ name \in loc.todo
    /\ LET p == parseV1(MergeWorld(loc.heap), loc.resourceLookup, ComposeFile,
                        loc.datas[name], loc.datas, MaxDepth)
           m == mergeExisting(p.w, loc.existing, name, p.val)
       IN  IF p.err # "nil"
           THEN Return("MergeServicesV1", MergeArg, p.err, p.w.detail)
           ELSE Goto("merge", [loc EXCEPT !.heap = m.w.heap,
                                          !.datas = [@ EXCEPT ![name] = m.val],
                                          !.todo = @ \ {name},
                                          !.resolved = (name :> m.w.heap[m.val]) @@ @])
    /\ UNCHANGED <<rt, images, serviceConfig, tasks, calls, events, failed, faultsLeft>>

\* the loop is over: the constraints are validated and the maps converted
MergeDone ==
    /\ pc = "merge" /\ loc.todo = {}
    /\ LET bad == {n \in DOMAIN loc.datas :
                      validateServiceConstraints(loc.heap[loc.datas[n]]) # "nil"}
           c   == Convert(MergeWorld(loc.heap), loc.datas, <<>>)
       IN  IF bad # {}
           THEN Return("MergeServicesV1", MergeArg, "constraint", <<>>)
           ELSE Return("MergeServicesV1", MergeArg, "nil",
                       [heap |-> c.w.heap, out |-> c.val, datas |-> loc.datas,
                        before |-> Values(c.w.heap, c.val)])
    /\ UNCHANGED <<rt, images, serviceConfig, tasks, calls, events, failed, faultsLeft>>

\* the caller changes a field of one of the configurations it was handed
MutateResolved(name) ==
    /\ pc = "returned" /\ ret.op = "MergeServicesV1" /\ ret.err = "nil"
    /\ name \in DOMAIN ret.val[1].out
    /\ pc' = "mutated"
    /\ ret' = [ret EXCEPT !.val[1].heap[ret.val[1].out[name]] = ("command" :> "m") @@ @]
    /\ UNCHANGED <<rt, images, serviceConfig, loc, tasks, calls, events, failed, faultsLeft, initial>>

InitMerge ==
    /\ rt = Populated(0, FALSE, FALSE)
    /\ serviceConfig = ConfigA
    /\ images = DriftImages("none")
    /\ InitCaller

NextMerge ==
    \/ \E raw \in RawFiles, ex \in ExistingServices, rl \in BOOLEAN : MergeServicesV1(raw, ex, rl)
    \/ \E name \in {"A", "B", "C"} : MergeStep(name)
    \/ MergeDone
    \/ \E name \in {"A", "B", "C"} : MutateResolved(name)

SpecMerge == InitMerge /\ [][NextMerge]_vars

---------------------------------------------------------------------------
\* Container.populateAdditionalHostConfig (container.go). A container name is a pair
\* (word, number) as above; an alias is the pair (word, 0), which no container has
\* for a name. An entry of hostConfig.Links, "name:alias", is a record.

MaxLinked == 2   \* containers of a linked service

Rel(target, alias, type) == [Target |-> target, Alias |-> <<alias, 0>>, Type |-> type]

Link(name, alias) == [name |-> name, alias |-> alias]

\* the services the project declares
ProjectServices == {"web", "db", "cache"}

\* what DependentServices yields for the service of the container being created
Dependencies ==
    {<<>>,
     <<Rel("db", "db", "link")>>,
     <<Rel("db", "database", "link")>>,
     <<Rel("db", "db", "link"), Rel("cache", "cache", "link")>>,
     <<Rel("db", "db", "link"), Rel("cache", "db", "link")>>,
     <<Rel("db", "db", "link"), Rel("db", "database", "link")>>,
     <<Rel("ghost", "ghost", "link")>>,
     <<Rel("ghost", "ghost", "link"), Rel("db", "db", "link")>>,
     <<Rel("db", "db", "ipc")>>,
     <<Rel("db", "db", "netns"), Rel("cache", "cache", "link")>>}

ExternalLinks == {<<>>, <<Link(<<"redis", 7>>, <<"store", 0>>)>>}

\* Project.CreateService(target).Containers(): n containers of db, one of cache,
\* or the error of the query when it fails
LinkedContainers(n, fails) ==
    [t \in ProjectServices |->
        IF t = "db" THEN [err |-> IF fails THEN "fault" ELSE "nil",
                          val |-> IF fails THEN <<>> ELSE [i \in 1..n |-> <<"db", i>>]]
        ELSE IF t = "cache" THEN [err |-> "nil", val |-> <<<<"cache", 1>>>>]
        ELSE [err |-> "nil", val |-> <<>>]]

\* addLinks that maps the alias to every container in turn
RECURSIVE addLinksLast(_, _, _)
addLinksLast(links, rel, containers) ==
    IF containers = <<>> THEN links
    ELSE addLinksLast((Head(containers) :> Head(containers)) @@ (rel.Alias :> Head(containers))
                          @@ links,
                      rel, Tail(containers))

RECURSIVE addLinks(_, _, _)
addLinks(links, rel, containers) ==
    IF containers = <<>> THEN links
    ELSE addLinks((Head(containers) :> Head(containers))
                      @@ (IF rel.Alias \notin DOMAIN links
                          THEN (rel.Alias :> Head(containers)) @@ links
                          ELSE links),
                  rel, Tail(containers))

\* the bodies of addIpc and addNetNs are commented out: the configuration comes back
\* as it went in, with no error
addIpc(config, containers) == [err |-> "nil", val |-> config]

addNetNs(config, containers) == [err |-> "nil", val |-> config]

\* the loop over DependentServices
RECURSIVE linkLoop(_, _, _)
linkLoop(deps, linked, links) ==
    IF deps = <<>> THEN [err |-> "nil", val |-> links]
    ELSE IF Head(deps).Target \notin ProjectServices THEN linkLoop(Tail(deps), linked, links)
    ELSE IF linked[Head(deps).Target].err # "nil"
    THEN [err |-> linked[Head(deps).Target].err, val |-> <<>>]
    ELSE IF Head(deps).Type = "link"
    THEN linkLoop(Tail(deps), linked,
                  addLinks(links, Head(deps), linked[Head(deps).Target].val))
    ELSE IF Head(deps).Type = "ipc"
    THEN IF addIpc(links, linked[Head(deps).Target].val).err # "nil"
         THEN [err |-> addIpc(links, linked[Head(deps).Target].val).err, val |-> <<>>]
         ELSE linkLoop(Tail(deps), linked, links)
    ELSE IF addNetNs(links, linked[Head(deps).Target].val).err # "nil"
         THEN [err |-> addNetNs(links, linked[Head(deps).Target].val).err, val |-> <<>>]
         ELSE linkLoop(Tail(deps), linked, links)

\* the orders in which "for k, v := range links" can yield the keys of the map
RECURSIVE RangeOrders(_)
RangeOrders(S) ==
    IF S = {} THEN {<<>>}
    ELSE UNION {{<<k>> \o o : o \in RangeOrders(S \ {k})} : k \in S}

\* hostConfig.Links for one order of the map, followed by the external links
hostLinks(links, order, externalLinks) ==
    [i \in 1..Len(order) |-> Link(links[order[i]], order[i])] \o externalLinks

populateAdditionalHostConfig(deps, n, fails, externalLinks) ==
    /\ pc = "idle"
    /\ LET r == linkLoop(deps, LinkedContainers(n, fails), <<>>)
       IN  IF r.err # "nil"
           THEN Return("populateAdditionalHostConfig", <<deps, n, externalLinks>>, r.err, <<>>)
           ELSE \E order \in RangeOrders(DOMAIN r.val) :
                    Return("populateAdditionalHostConfig", <<deps, n, externalLinks>>, "nil",
                           hostLinks(r.val, order, externalLinks))
    /\ UNCHANGED <<rt, images, serviceConfig, tasks, calls, events, failed, faultsLeft>>

InitLinks ==
    /\ rt = Populated(0, FALSE, FALSE)
    /\ serviceConfig = ConfigA
    /\ images = DriftImages("none")
    /\ InitCaller

NextLinks ==
    \E deps \in Dependencies, n \in 0..MaxLinked, fails \in BOOLEAN, ext \in ExternalLinks :
        populateAdditionalHostConfig(deps, n, fails, ext)

SpecLinks == InitLinks /\ [][NextLinks]_vars

---------------------------------------------------------------------------
\* The binds of the replacement container (createContainer with an old container)

MaxMounts == 2   \* mounts of the old container

Sources == {"/host/data", "/host/logs"}
Destinations == {"/data", "/logs"}

Mount(source, destination) == [Source |-> source, Destination |-> destination]

\* fmt.Sprint(mount.Source, ":", mount.Destination)
Bind(mount) == mount.Source \o ":" \o mount.Destination

\* the mounts the inspection of the old container reports
MountLists ==
    UNION {[1..k -> {Mount(src, dst) : src \in Sources, dst \in Destinations}] : k \in 0..MaxMounts}

\* HostConfig.Binds and Config.Volumes of the new configuration
ConfigBinds == {<<>>, <<"/host/data:/data">>, <<"/srv:/logs">>}
ConfigVolumes == SUBSET Destinations

\* volumeBinds that takes every mount of the old container
RECURSIVE volumeBindsAll(_, _)
volumeBindsAll(volumes, mounts) ==
    IF mounts = <<>> THEN <<>>
    ELSE <<Bind(Head(mounts))>> \o volumeBindsAll(volumes, Tail(mounts))

RECURSIVE volumeBinds(_, _)
volumeBinds(volumes, mounts) ==
    IF mounts = <<>> THEN <<>>
    ELSE (IF Head(mounts).Destination \in volumes THEN <<Bind(Head(mounts))>> ELSE <<>>)
         \o volumeBinds(volumes, Tail(mounts))

\* util.Merge: the strings of both lists, each once, in the order of a map
Merge(coll1, coll2) ==
    RangeOrders({coll1[i] : i \in 1..Len(coll1)} \cup {coll2[i] : i \in 1..Len(coll2)})

\* createContainer, oldContainer set: the binds handed to ContainerCreate
createContainerBinds(volumes, binds, mounts) ==
    /\ pc = "idle"
    /\ \E merged \in Merge(binds, volumeBinds(volumes, mounts)) :
           Return("createContainer.Binds", <<volumes, binds, mounts>>, "nil", merged)
    /\ UNCHANGED <<rt, images, serviceConfig, tasks, calls, events, failed, faultsLeft>>

NextBinds ==
    \E volumes \in ConfigVolumes, binds \in ConfigBinds, mounts \in MountLists :
        createContainerBinds(volumes, binds, mounts)

SpecBinds == InitLinks /\ [][NextBinds]_vars

---------------------------------------------------------------------------
\* What the properties below speak of

ServiceContainers(rtv) ==
    {id \in DOMAIN rtv : rtv[id].service = ServiceName /\ rtv[id].project = ProjectName}

Regular(rtv) == {id \in ServiceContainers(rtv) : rtv[id].oneOff = "False"}

OneOffs(rtv) == {id \in ServiceContainers(rtv) : rtv[id].oneOff = "True"}

Returned(op) == pc = "returned" /\ ret.op = op

Called(cs, kind) == \E i \in 1..Len(cs) : cs[i][1] = kind

\* in the calls cs every removal of a container comes after a stop of that container
StoppedBeforeRemoved(cs) ==
    \A j \in 1..Len(cs) : cs[j][1] = "remove" =>
        \E k \in 1..(j - 1) : cs[k][1] = "stop" /\ cs[k][2] = cs[j][2][1]

---------------------------------------------------------------------------
\* C1: Service.Scale(M) on a service that has N > M containers (no one-off container
\* among them, no runtime call failing) returns, whatever the interleaving of the
\* goroutines of its fan-out, with exactly M containers of the service in the runtime,
\* and a goroutine that removes a container has stopped it before.
C1_ScaleDownLeavesM ==
    /\ (/\ Returned("Scale") /\ ret.err = "nil" /\ ~failed
        /\ OneOffs(initial.rt) = {}
        /\ Cardinality(ServiceContainers(initial.rt)) > ret.arg[1])
       => Cardinality(ServiceContainers(rt)) = ret.arg[1]
    /\ (pc = "fanout" /\ loc.phase = "scaledown")
       => \A i \in 1..Len(tasks) : StoppedBeforeRemoved(tasks[i].calls)

\* C2: Container.Create on a name a container already has returns that container,
\* issues no runtime create call, emits no event and leaves the runtime as it was;
\* on a free name it leaves one more container and emits one event; and a second
\* Create after a first changes nothing, emits nothing and returns the same container.
C2_CreateIdempotent ==
    /\ Returned("Container.Create") =>
         IF IdByName(initial.rt, ret.arg[1]) # Nil
         THEN /\ rt = initial.rt
              /\ events = 0
              /\ ~Called(calls, "create")
              /\ ret.err = "nil" => ret.val = <<IdByName(initial.rt, ret.arg[1])>>
         ELSE ret.err = "nil" =>
              /\ events = 1
              /\ Cardinality(DOMAIN rt) = Cardinality(DOMAIN initial.rt) + 1
              /\ Cardinality({id \in DOMAIN rt : rt[id].name = ret.arg[1]}) = 1
              /\ ret.val = <<IdByName(rt, ret.arg[1])>>
    /\ \A c \in Handles :
         Let(Create(World, c, imageName(serviceConfig)), LAMBDA first :
         Let(Create(first.w, c, imageName(serviceConfig)), LAMBDA second :
         (first.err = "nil" /\ second.err = "nil") =>
             /\ second.val = first.val
             /\ second.w.rt = first.w.rt
             /\ second.w.events = first.w.events
             /\ second.w.events <= 1
             /\ Cardinality({id \in DOMAIN second.w.rt : second.w.rt[id].name = c.name}) = 1
             /\ Cardinality({i \in 1..Len(second.w.calls) : second.w.calls[i][1] = "create"})
                    = second.w.events))

C2_Witness ==
    /\ Returned("Container.Create") /\ ret.err = "nil"
    /\ IdByName(initial.rt, ret.arg[1]) # Nil
    /\ ret.val = <<IdByName(initial.rt, ret.arg[1])>>
    /\ rt = initial.rt /\ events = 0

\* C3: Service.Run (a create with the override of command, tty and stdin) leaves the
\* configuration the service holds as it was, so the hash computed for the service's
\* containers is the same before and after, and a container OutOfSync reported in sync
\* before the Run is reported in sync after it.
C3_OverrideLeavesConfig ==
    Returned("Run") =>
        /\ serviceConfig = initial.cfg
        /\ GetServiceHash(ServiceName, serviceConfig) = GetServiceHash(ServiceName, initial.cfg)
        /\ \A id \in Regular(initial.rt) :
             LET c == NewContainer(initial.rt[id].name, Atoi(initial.rt[id].number).val)
                 before == OutOfSync([World EXCEPT !.rt = initial.rt, !.cfg = initial.cfg],
                                     c, imageName(initial.cfg))
                 after == OutOfSync(World, c, imageName(initial.cfg))
             IN  (before.err = "nil" /\ ~before.val) => (after.err = "nil" /\ ~after.val)

\* C4: an operation during which a runtime call failed returns a non-nil error.
C4_NoSwallowedError ==
    (pc = "returned" /\ failed) => ret.err # "nil"

\* C5 (as claimed): when the creation of the replacement fails, Recreate returns the
\* error, the original is present under its renamed identity, nothing is rolled back,
\* and no container has the canonical name.
RecreateCreationFailed ==
    /\ Returned("Container.Recreate") /\ ret.err # "nil"
    /\ Len(calls) >= 3 /\ calls[2][1] = "rename"
    /\ ~Called(calls, "remove")

OriginalRenamed ==
    LET old == IdByName(initial.rt, ret.arg[1])
    IN  /\ old \in DOMAIN rt
        /\ rt[old] = [initial.rt[old] EXCEPT !.name = RenamedName(ret.arg[1], old)]
        /\ DOMAIN initial.rt \subseteq DOMAIN rt
        /\ \A id \in DOMAIN initial.rt \ {old} : rt[id] = initial.rt[id]

C5_RecreateFailureLeavesNoReplacement ==
    RecreateCreationFailed =>
        /\ ret.val = <<Nil>>
        /\ OriginalRenamed
        /\ IdByName(rt, ret.arg[1]) = Nil

\* C5 (amended): when the creation of the replacement fails, Recreate returns the
\* error, the original is present under its renamed identity and nothing is rolled
\* back; no container has the canonical name unless the runtime had created the
\* replacement and it was the inspection of it afterwards that failed.
C5_RecreateFailureLeavesRenamed ==
    RecreateCreationFailed =>
        /\ ret.val = <<Nil>>
        /\ OriginalRenamed
        /\ IF Len(calls) = 5 /\ calls[4][1] = "create" /\ calls[5][1] = "inspectID"
           THEN /\ IdByName(rt, ret.arg[1]) \notin DOMAIN initial.rt \cup {Nil}
                /\ DOMAIN rt = DOMAIN initial.rt \cup {IdByName(rt, ret.arg[1])}
           ELSE /\ IdByName(rt, ret.arg[1]) = Nil
                /\ DOMAIN rt = DOMAIN initial.rt

C5_Witness ==
    /\ RecreateCreationFailed
    /\ Len(calls) = 4 /\ calls[4][1] = "create"
    /\ OriginalRenamed
    /\ IdByName(rt, ret.arg[1]) = Nil

\* C6: Scale(N) on a service with no container, no runtime call failing, creates one
\* container in each turn of constructContainers, returns with exactly N containers
\* whose instance numbers and names are pairwise distinct, and all of them run.
DistinctInstances(rtv) ==
    \A a \in DOMAIN rtv, b \in DOMAIN rtv :
        a # b => rtv[a].number # rtv[b].number /\ rtv[a].name # rtv[b].name

C6_ScaleUpFromNone ==
    /\ (Returned("Scale") /\ ret.err = "nil" /\ ~failed /\ DOMAIN initial.rt = {})
       => /\ Cardinality(Regular(rt)) = ret.arg[1]
          /\ DOMAIN rt = Regular(rt)
          /\ DistinctInstances(rt)
          /\ \A id \in DOMAIN rt : rt[id].running
    /\ (pc = "construct" /\ loc.op = "Scale" /\ DOMAIN initial.rt = {})
       => /\ Cardinality(DOMAIN rt) = loc.n
          /\ DistinctInstances(rt)

C6_Witness ==
    /\ Returned("Scale") /\ ret.err = "nil" /\ ~failed /\ DOMAIN initial.rt = {}
    /\ ret.arg = <<MaxScale>>
    /\ Cardinality(Regular(rt)) = MaxScale
    /\ DistinctInstances(rt)
    /\ \A id \in DOMAIN rt : rt[id].running

\* C7: Scale neither stops nor deletes a one-off container, and the instances it
\* compares with the target do not include one: on a service whose only container is
\* a one-off, Scale(1) leaves one container that is not a one-off.
C7_OneOffOutsideScaling ==
    ~failed =>
        /\ \A id \in OneOffs(initial.rt) :
             /\ id \in DOMAIN rt
             /\ rt[id].name = initial.rt[id].name
             /\ initial.rt[id].running => rt[id].running
        /\ (Returned("Scale") /\ ret.err = "nil" /\ Regular(initial.rt) = {})
           => Cardinality(Regular(rt)) = ret.arg[1]

FanOutOps == {"Up", "Start", "Stop", "Delete", "Create"}

OnePerContainer ==
    /\ Len(tasks) = Cardinality(ServiceContainers(rt))
    /\ \A id \in ServiceContainers(rt) :
         Cardinality({i \in 1..Len(tasks) : tasks[i].c.name = rt[id].name}) = 1

C9_FanOut ==
    /\ (pc = "fanout" /\ \A i \in 1..Len(tasks) : tasks[i].pc = "run") => OnePerContainer
    /\ (pc = "returned" /\ ret.op \in FanOutOps /\ (tasks # <<>> \/ ~failed)) =>
         /\ AllDone
         /\ ret.err # "nil" <=> \E i \in 1..Len(tasks) : tasks[i].err # "nil"
         /\ ret.op = "Stop" =>
              /\ Len(tasks) = Cardinality(ServiceContainers(initial.rt))
              /\ \A i \in 1..Len(tasks) : tasks[i].calls # <<>>
              /\ \A i \in 1..Len(tasks) : tasks[i].err = "nil" =>
                   /\ IdByName(rt, tasks[i].c.name) # Nil
                   /\ ~rt[IdByName(rt, tasks[i].c.name)].running
         /\ ret.op = "Delete" =>
              /\ Len(tasks) = Cardinality(ServiceContainers(initial.rt))
              /\ \A i \in 1..Len(tasks) : tasks[i].err = "nil" =>
                   (IdByName(rt, tasks[i].c.name) # Nil
                      <=> initial.rt[IdByName(initial.rt, tasks[i].c.name)].running)

C9_Witness ==
    /\ Returned("Stop") /\ ret.err # "nil"
    /\ Len(tasks) = MaxContainers + 1
    /\ \A id \in DOMAIN initial.rt : initial.rt[id].running
    /\ \E i \in 1..Len(tasks) :
         /\ tasks[i].err # "nil"
         /\ rt[IdByName(rt, tasks[i].c.name)].running
         /\ \A j \in 1..Len(tasks) \ {i} :
              tasks[j].err = "nil" /\ ~rt[IdByName(rt, tasks[j].c.name)].running

\* C10: OutOfSync(image) is false for an absent container; for an existing one it is
\* true exactly when the image it records differs from the target image, or its hash
\* label differs from the hash of the service's configuration, or the image is found
\* locally under an ID other than the one the container was created from; an image
\* not found locally is no error.
ExpectedOutOfSync(name, image) ==
    LET id == IdByName(rt, name)
    IN  /\ id # Nil
        /\ \/ rt[id].image # image
           \/ rt[id].hash # GetServiceHash(ServiceName, serviceConfig)
           \/ images[rt[id].image] # 0 /\ images[rt[id].image] # rt[id].imageID

C10_OutOfSync ==
    Returned("Container.OutOfSync") =>
        /\ rt = initial.rt /\ serviceConfig = initial.cfg
        /\ IF failed THEN ret.err # "nil" /\ ret.val = <<FALSE>>
           ELSE ret.err = "nil" /\ ret.val = <<ExpectedOutOfSync(ret.arg[1], ret.arg[2])>>

C10_Witness ==
    /\ Returned("Container.OutOfSync") /\ ~failed /\ ret.val = <<TRUE>>
    /\ IdByName(rt, ret.arg[1]) # Nil
    /\ rt[IdByName(rt, ret.arg[1])].image = ret.arg[2]
    /\ rt[IdByName(rt, ret.arg[1])].hash = GetServiceHash(ServiceName, serviceConfig)
    /\ images[ret.arg[2]] # rt[IdByName(rt, ret.arg[1])].imageID

\* C11: a container Create has created against configuration C1 and image I carries
\* the hash of C1 in its hash label; OutOfSync(I) is false while the service's
\* configuration is C1 and the image ID is the one it was created from, and true
\* under every configuration whose hash differs from C1's.
OtherConfigs == Configs \cup {OverrideConfig(cfg, Override(cmd)) : cfg \in Configs, cmd \in RunCommands}

C11_HashRoundTrip ==
    (Returned("Container.Create") /\ ret.err = "nil" /\ IdByName(initial.rt, ret.arg[1]) = Nil) =>
        LET id == ret.val[1]
            c == NewContainer(ret.arg[1], Atoi(rt[id].number).val)
            I == imageName(serviceConfig)
        IN  /\ rt[id].hash = GetServiceHash(ServiceName, serviceConfig)
            /\ rt[id].image = I /\ rt[id].imageID = images[I]
            /\ OutOfSync(World, c, I).err = "nil"
            /\ ~OutOfSync(World, c, I).val
            /\ \A C2 \in OtherConfigs :
                 GetServiceHash(ServiceName, C2) # GetServiceHash(ServiceName, serviceConfig)
                 => /\ OutOfSync([World EXCEPT !.cfg = C2], c, I).err = "nil"
                    /\ OutOfSync([World EXCEPT !.cfg = C2], c, I).val

C11_Witness ==
    /\ Returned("Container.Create") /\ ret.err = "nil" /\ IdByName(initial.rt, ret.arg[1]) = Nil
    /\ rt[ret.val[1]].hash = GetServiceHash(ServiceName, serviceConfig)
    /\ ~OutOfSync(World, NewContainer(ret.arg[1], 1), imageName(serviceConfig)).val
    /\ OutOfSync([World EXCEPT !.cfg = ConfigB], NewContainer(ret.arg[1], 1),
                 imageName(serviceConfig)).val


EnumeratingOps == {"Create", "Up", "Start", "Stop", "Kill", "Restart", "Delete", "Pause",
                   "Unpause", "Scale", "Info", "Containers"}

MalformedLabel(rtv) == \E id \in ServiceContainers(rtv) : ~Atoi(rtv[id].number).ok

\* C12: when the service query returns a container whose number label is missing or
\* is no decimal integer, each of Create, Up, Start, Stop, Kill, Restart, Delete,
\* Pause, Unpause, Scale, Info and Containers returns an error without starting a
\* fan-out or a construction, and the runtime is left as it was: the only runtime
\* call issued is the query itself
C12_MalformedLabelFails ==
    MalformedLabel(initial.rt) =>
        /\ pc \in {"idle", "returned"}
        /\ pc = "returned" =>
              /\ ret.op \in EnumeratingOps
              /\ ret.err # "nil"
              /\ rt = initial.rt
              /\ tasks = <<>>
              /\ \A i \in 1..Len(calls) : calls[i][1] = "list"

C12_Witness ==
    /\ MalformedLabel(initial.rt)
    /\ Cardinality(ServiceContainers(initial.rt)) = 2
    /\ Returned("Scale") /\ ret.err = "atoi"
    /\ Len(calls) = 1 /\ rt = initial.rt


LookupOps == {"Container.Stop", "Container.Pause", "Container.Unpause", "Container.Kill",
              "Container.Restart"}

OnlyLookups(cs) == \A i \in 1..Len(cs) : cs[i][1] = "inspect"

\* the operation returned nil and left the runtime alone, having issued no call
\* beyond the lookup of the container
NoOp == ret.err = "nil" /\ rt = initial.rt /\ OnlyLookups(calls)

AbsentNoOp ==
    \A op \in LookupOps :
        (Returned(op) /\ ~failed /\ IdByName(initial.rt, ret.arg[1]) = Nil) => NoOp

StartAbsentNoOp ==
    (Returned("Container.Start") /\ ~failed /\ ret.arg[1] \notin DOMAIN initial.rt) => NoOp

PauseStateNoOp ==
    /\ (Returned("Container.Pause") /\ ~failed /\ IdByName(initial.rt, ret.arg[1]) # Nil) =>
           (initial.rt[IdByName(initial.rt, ret.arg[1])].paused => NoOp)
    /\ (Returned("Container.Unpause") /\ ~failed /\ IdByName(initial.rt, ret.arg[1]) # Nil) =>
           (~initial.rt[IdByName(initial.rt, ret.arg[1])].paused => NoOp)

\* C14: when no runtime call fails of itself, each of Container.Start, Stop, Pause,
\* Unpause, Kill and Restart on a container that does not exist returns nil without a
\* crash and without a state-changing runtime call, and so do Pause on a paused
\* container and Unpause on a container that is not paused
C14_LifecycleNoOps == AbsentNoOp /\ StartAbsentNoOp /\ PauseStateNoOp


\* Service.Create has returned nil and no runtime call failed on the way
Created == Returned("Create") /\ ret.err = "nil" /\ ~failed

\* what OutOfSync answers for a container the operation started with
WasOutOfSync(id) ==
    \/ initial.rt[id].image # imageName(serviceConfig)
    \/ initial.rt[id].hash # GetServiceHash(ServiceName, serviceConfig)
    \/ images[initial.rt[id].image] # 0 /\ images[initial.rt[id].image] # initial.rt[id].imageID

\* a goroutine of the fan-out has issued the call on the container
TaskCalled(kind, id) ==
    \E i \in 1..Len(tasks) : \E j \in 1..Len(tasks[i].calls) :
        /\ tasks[i].calls[j][1] = kind
        /\ IF kind = "remove" THEN tasks[i].calls[j][2][1] = id ELSE tasks[i].calls[j][2] = id

\* the container was renamed and removed, and a new one, created from the service's
\* configuration and not running, holds its name
Recreated(id) ==
    /\ TaskCalled("rename", id) /\ TaskCalled("remove", id)
    /\ LET n == IdByName(rt, initial.rt[id].name)
       IN  /\ n # Nil
           /\ rt[n].hash = GetServiceHash(ServiceName, serviceConfig)
           /\ rt[n].image = imageName(serviceConfig)
           /\ ~rt[n].running

Untouched(id) ==
    /\ ~TaskCalled("rename", id) /\ ~TaskCalled("remove", id)
    /\ id \in DOMAIN rt /\ rt[id] = initial.rt[id]

NothingStarted ==
    /\ ~Called(calls, "start")
    /\ \A i \in 1..Len(tasks) : ~Called(tasks[i].calls, "start")
    /\ \A id \in DOMAIN rt : rt[id].running => (id \in DOMAIN initial.rt /\ initial.rt[id].running)

CreatedOne ==
    ServiceContainers(initial.rt) = {} =>
        /\ Cardinality(DOMAIN rt) = Cardinality(DOMAIN initial.rt) + 1
        /\ \A id \in DOMAIN initial.rt : Untouched(id)
        /\ \E n \in DOMAIN rt \ DOMAIN initial.rt :
               n \in Regular(rt) /\ rt[n].number = Itoa(1) /\ ~rt[n].running

\* C13 as the spec words it: Service.Create that returns nil recreates every container
\* the service had when ForceRecreate is set, and otherwise recreates those OutOfSync
\* is true for and leaves the others as they were; with no container it creates one
\* instance; it starts nothing
C13_CreateRecreatesOutOfSync ==
    Created =>
        /\ \A id \in ServiceContainers(initial.rt) :
               IF ret.arg[2] \/ WasOutOfSync(id) THEN Recreated(id) ELSE Untouched(id)
        /\ CreatedOne
        /\ NothingStarted

\* C13, amended: the same, except that with NoRecreate set nothing is recreated,
\* whatever OutOfSync answers and whether or not ForceRecreate is set
C13_CreateRecreatesUnlessNoRecreate ==
    Created =>
        /\ \A id \in ServiceContainers(initial.rt) :
               IF ~ret.arg[1] /\ (ret.arg[2] \/ WasOutOfSync(id)) THEN Recreated(id)
               ELSE Untouched(id)
        /\ CreatedOne
        /\ NothingStarted

C13_Witness ==
    /\ Created /\ ~ret.arg[1] /\ ~ret.arg[2]
    /\ \E id \in Regular(initial.rt) : WasOutOfSync(id) /\ Recreated(id)
    /\ \E id \in OneOffs(initial.rt) : WasOutOfSync(id) /\ Recreated(id)
    /\ Cardinality(Regular(initial.rt)) = 2


\* the declarations of every file: the file merged and those the lookup finds
FilesOf(raw) == (ComposeFile :> raw) @@ FilesFound

DeclaresBase(d) == "extends" \in DOMAIN d /\ d["extends"].map /\ d["extends"].service # ""

BaseFileOf(file, d) == IF d["extends"].file = "" THEN file ELSE d["extends"].file

\* what a service inherits: each field from the nearest declaration on its chain of
\* extends that sets it, the service's own declaration first
RECURSIVE Inherited(_, _, _)
Inherited(files, file, name) ==
    LET d == files[file][name]
    IN  IF ~DeclaresBase(d) THEN d
        ELSE mergeFields(Inherited(files, BaseFileOf(file, d), d["extends"].service), d)

ResolvedBase(raw, name) ==
    Inherited(FilesOf(raw), BaseFileOf(ComposeFile, raw[name]), raw[name]["extends"].service)

\* the services MergeServicesV1 has resolved so far, when it has not failed
Resolved == IF pc = "merge" THEN loc.resolved ELSE <<>>

OwnFields(raw, existing, n) ==
    DOMAIN Inherited(FilesOf(raw), ComposeFile, n)
    \cup UNION {DOMAIN existing[m] : m \in DOMAIN existing}

Merged == Returned("MergeServicesV1") /\ ret.err = "nil"

\* C16: while MergeServicesV1 runs, the map of a service not yet resolved is its
\* declaration and the map of a resolved service stays what it was resolved to,
\* whichever services are resolved through it meanwhile; a service of the result
\* has no field other than those of its own chain of extends and of the earlier
\* files, so none of a sibling extending the same base; and after the caller has
\* changed one returned configuration the others are what was returned
C16_BaseUnchanged ==
    /\ pc = "merge" =>
          /\ \A n \in loc.todo : loc.heap[loc.datas[n]] = loc.raw[n]
          /\ \A n \in DOMAIN loc.resolved : loc.heap[loc.datas[n]] = loc.resolved[n]
    /\ Merged =>
          \A n \in DOMAIN ret.val[1].out :
              DOMAIN ret.val[1].before[n] \subseteq OwnFields(ret.arg[1], ret.arg[2], n)
    /\ pc = "mutated" =>
          /\ Cardinality({n \in DOMAIN ret.val[1].out :
                 ret.val[1].heap[ret.val[1].out[n]] # ret.val[1].before[n]}) <= 1
          /\ \A n \in DOMAIN ret.val[1].datas :
                 ret.val[1].heap[ret.val[1].datas[n]] = ret.val[1].before[n]

C16_Witness ==
    /\ pc = "mutated" /\ "C" \in DOMAIN ret.arg[1]
    /\ DeclaresBase(ret.arg[1]["B"]) /\ ret.arg[1]["B"]["extends"] = Extends("", "A")
    /\ DeclaresBase(ret.arg[1]["C"]) /\ ret.arg[1]["C"]["extends"] = Extends("", "A")
    /\ ret.val[1].heap[ret.val[1].out["B"]]["command"] = "m"
    /\ ret.val[1].heap[ret.val[1].out["A"]]["command"] = "a"
    /\ "tty" \notin DOMAIN ret.val[1].heap[ret.val[1].out["C"]]


\* the services of the file whose base, resolved, declares a field of noMerge
ExtendsNoMerge(raw) ==
    {n \in DOMAIN raw : DeclaresBase(raw[n]) /\ NoMergeField(ResolvedBase(raw, n)) # ""}

NoMergeFailed == Returned("MergeServicesV1") /\ ret.err = "noMerge"

Layered == IF Merged THEN DOMAIN ret.arg[2] \cap DOMAIN ret.arg[1] ELSE {}

ExtendsResult(n) == Inherited(FilesOf(ret.arg[1]), ComposeFile, n)

\* C18 as the spec words it: the output for a service that has an already-resolved
\* configuration holds every field either of the two sets, and for a field both set
\* the value of the already-resolved configuration
C18_ExistingWins ==
    \A n \in Layered : ret.val[1].before[n] = mergeFields(ExtendsResult(n), ret.arg[2][n])

\* C18, amended: for a field both set, the value of what the file being merged
\* resolves to
C18_MergedFileWins ==
    \A n \in Layered : ret.val[1].before[n] = mergeFields(ret.arg[2][n], ExtendsResult(n))

C18_Witness ==
    /\ Merged /\ "A" \in DOMAIN ret.arg[2]
    /\ ret.arg[1]["A"] = ("image" :> "x" @@ "command" :> "a")
    /\ ret.val[1].before["A"] = ("image" :> "x" @@ "command" :> "a" @@ "ports" :> "p")


NamesFile(d) == DeclaresBase(d) /\ d["extends"].file # ""

\* C19: when MergeServicesV1 is given no resource lookup, it fails for want of one
\* only if a service of the file extends a service of another file, and it does
\* fail if one does; a file whose extends all name services of the same file is
\* resolved
C19_LookupOnlyForFiles ==
    (Returned("MergeServicesV1") /\ ~ret.arg[3]) =>
        /\ ret.err = "nolookup" => \E n \in DOMAIN ret.arg[1] : NamesFile(ret.arg[1][n])
        /\ (\E n \in DOMAIN ret.arg[1] : NamesFile(ret.arg[1][n])) => ret.err # "nil"


Derived == Returned("populateAdditionalHostConfig") /\ ret.err = "nil"

\* the relationships of kind link whose target the project declares
LinkRels(deps) ==
    {i \in 1..Len(deps) : deps[i].Type = "link" /\ deps[i].Target \in ProjectServices}

Linked(target, n) == LinkedContainers(n, FALSE)[target].val

\* the entries of hostConfig.Links that precede the external links
MapEntries(ls, ext) == {ls[i] : i \in 1..(Len(ls) - Len(ext))}

EndsWith(ls, ext) ==
    /\ Len(ls) >= Len(ext)
    /\ \A i \in 1..Len(ext) : ls[Len(ls) - Len(ext) + i] = ext[i]

\* two entries for every container: alias to container, name to container
ExpectedOf(rel, containers) ==
    UNION {{Link(containers[j], rel.Alias), Link(containers[j], containers[j])} :
           j \in 1..Len(containers)}

\* C20 as the spec words it: the links derived hold, for every link relationship to
\* a service of the project and every container of that service, an entry from the
\* alias to the container and an entry from the container's name to the container,
\* nothing else before the external links, and the external links at the end
C20_TwoEntriesPerContainer ==
    Derived =>
        LET deps == ret.arg[1]
            ls == ret.val[1]
            expected == UNION {ExpectedOf(deps[i], Linked(deps[i].Target, ret.arg[2])) :
                               i \in LinkRels(deps)}
        IN  MapEntries(ls, ret.arg[3]) = expected /\ EndsWith(ls, ret.arg[3])


\* the link relationships that can give the alias a container
Holders(deps, n, a) ==
    {i \in LinkRels(deps) : deps[i].Alias = a /\ Linked(deps[i].Target, n) # <<>>}

FirstHolder(deps, n, a) == CHOOSE i \in Holders(deps, n, a) : \A j \in Holders(deps, n, a) : i <= j

\* one entry for each alias, to the first container of the first relationship that
\* declares it, and one entry from each container's name to the container
ExpectedLinks(deps, n) ==
    {Link(Linked(deps[FirstHolder(deps, n, deps[i].Alias)].Target, n)[1], deps[i].Alias) :
        i \in {j \in LinkRels(deps) : Holders(deps, n, deps[j].Alias) # {}}}
    \cup UNION {{Link(Linked(deps[i].Target, n)[j], Linked(deps[i].Target, n)[j]) :
                    j \in 1..Len(Linked(deps[i].Target, n))} : i \in LinkRels(deps)}

\* C20, amended: the links derived hold one entry for each declared alias, to the
\* first container of the linked service (of the first relationship, when two
\* declare the same alias), and one entry from the name of every container of every
\* linked service to that container, each once, in any order, followed by the
\* external links in the order declared; a relationship to a service the project
\* does not declare, or of another kind, adds nothing
C20_AliasToFirstContainer ==
    Derived =>
        /\ MapEntries(ret.val[1], ret.arg[3]) = ExpectedLinks(ret.arg[1], ret.arg[2])
        /\ Len(ret.val[1]) = Cardinality(ExpectedLinks(ret.arg[1], ret.arg[2])) + Len(ret.arg[3])
        /\ EndsWith(ret.val[1], ret.arg[3])

C20_Witness ==
    /\ Derived /\ ret.arg[2] = 2 /\ ret.arg[3] # <<>>
    /\ ret.arg[1] = <<Rel("ghost", "ghost", "link"), Rel("db", "db", "link")>>
    /\ Len(ret.val[1]) = 4
    /\ Link(<<"db", 1>>, <<"db", 0>>) \in MapEntries(ret.val[1], ret.arg[3])
    /\ Link(<<"db", 2>>, <<"db", 0>>) \notin MapEntries(ret.val[1], ret.arg[3])


\* the relationships that ask for the IPC or the network namespace of a service the
\* project declares
NamespaceRels(deps) ==
    {i \in 1..Len(deps) : deps[i].Type \in {"ipc", "netns"} /\ deps[i].Target \in ProjectServices}

\* C21: when the service declares a shared-IPC or shared-network-namespace
\* relationship to a service of the project, populateAdditionalHostConfig returns an
\* error to its caller
C21_NamespaceUnsupported ==
    (Returned("populateAdditionalHostConfig") /\ NamespaceRels(ret.arg[1]) # {}) =>
        ret.err # "nil"


\* C22: on a service declared with a custom container name, Scale(n) with n > 1
\* during which no runtime call fails returns nil, and the runtime then holds
\* exactly one container of the service, the one under the custom name
C22_CustomNameOneContainer ==
    (Returned("Scale") /\ ret.arg[1] > 1 /\ ~failed /\ serviceConfig.ContainerName # "") =>
        /\ ret.err = "nil"
        /\ Cardinality(ServiceContainers(rt)) = 1
        /\ \A id \in ServiceContainers(rt) : rt[id].name = <<serviceConfig.ContainerName>>

C22_Witness ==
    /\ Returned("Scale") /\ ret.arg[1] = 2 /\ ~failed /\ ret.err = "nil"
    /\ serviceConfig.ContainerName = "custom"
    /\ initial.rt = <<>>
    /\ Cardinality(ServiceContainers(rt)) = 1
    /\ \A id \in ServiceContainers(rt) : rt[id].name = <<"custom">> /\ rt[id].running


\* the operation under way or just returned
CurrentOp == IF pc = "returned" THEN ret.op ELSE loc.op

Issued(cs, kinds) == {i \in 1..Len(cs) : cs[i][1] \in kinds}

\* a container create or recreate has been issued, by the caller or by a goroutine
ContainerMade ==
    \/ Issued(calls, {"create", "rename"}) # {}
    \/ \E i \in 1..Len(tasks) : Issued(tasks[i].calls, {"create", "rename"}) # {}

\* the caller inspected the service's image before any create or recreate of its own
InspectedFirst ==
    \E j \in Issued(calls, {"imageInspect"}) :
        /\ calls[j][2] = imageName(serviceConfig)
        /\ \A i \in Issued(calls, {"create", "rename"}) : j < i

\* the runtime calls the caller issues in the step
NewCalls == IF pc = "idle" THEN calls' ELSE SubSeq(calls', Len(calls) + 1, Len(calls'))

C24_RunCreatesAndWaits ==
    Returned("Container.Run") =>
        /\ calls # <<>> /\ calls[1] = <<"create", ret.arg[1]>>
        /\ ~Called(calls, "inspect")
        /\ (ret.err = "nil" /\ (~ret.arg[2] \/ ret.arg[3])) =>
              /\ \E i \in 1..Len(calls) : calls[i][1] = "wait" /\ rt[calls[i][2]].name = ret.arg[1]
              /\ ~rt[IdByName(rt, ret.arg[1])].running

\* a run without a TTY and without auto-removal has returned after the wait
C24_Witness ==
    /\ Returned("Container.Run") /\ ret.err = "nil"
    /\ ~ret.arg[2] /\ ~ret.arg[3]
    /\ Called(calls, "wait")
    /\ ~rt[IdByName(rt, ret.arg[1])].running
    /\ IdByName(initial.rt, ret.arg[1]) = Nil


Elements(seq) == {seq[i] : i \in 1..Len(seq)}

\* C25: the binds of the replacement hold the binds of the new configuration and,
\* for every mount of the old container whose destination is a volume of the new
\* configuration, "<source>:<destination>"; a mount whose destination is not such
\* a volume adds no bind
C25_MatchingBindsInherited ==
    Returned("createContainer.Binds") =>
        LET volumes == ret.arg[1]
            binds   == ret.arg[2]
            mounts  == ret.arg[3]
            result  == Elements(ret.val[1])
        IN  /\ Elements(binds) \subseteq result
            /\ \A m \in Elements(mounts) : m.Destination \in volumes => Bind(m) \in result
            /\ \A b \in result \ Elements(binds) :
                  \E m \in Elements(mounts) : m.Destination \in volumes /\ b = Bind(m)

C25_Witness ==
    /\ Returned("createContainer.Binds")
    /\ ret.arg[1] = {"/data"}
    /\ ret.arg[2] = <<"/srv:/logs">>
    /\ ret.arg[3] = <<Mount("/host/data", "/data"), Mount("/host/logs", "/logs")>>
    /\ Elements(ret.val[1]) = {"/srv:/logs", "/host/data:/data"}


\* the instance indexes a caller's namer has handed out
Allocated(i) == Elements(tasks[i].allocated)

\* C26: two callers of constructContainers are handed the same instance index only
\* when neither saw a container of that index as it built its namer, that is when
\* their calls overlap; and a caller's create is refused as a conflict only for an
\* index the other caller was handed too
C26_SameIndexOnlyWhenOverlapping ==
    pc = "race" =>
        /\ \A x \in Allocated(1) \cap Allocated(2) : x \notin tasks[1].seen \cup tasks[2].seen
        /\ \A i \in Callers : tasks[i].err = "conflict" =>
              tasks[i].c.number \in Allocated(1) \cap Allocated(2)

\* both callers were handed index 1; one created the container and the other's
\* create was refused
C26_Witness ==
    /\ pc = "race"
    /\ \A i \in Callers : tasks[i].pc = "done"
    /\ 1 \in Allocated(1) \cap Allocated(2)
    /\ tasks[1].err = "nil" /\ tasks[2].err = "conflict"
    /\ Cardinality(Regular(rt)) = 1


\* the calls of cs that change the runtime's containers
Changes(cs) == SelectSeq(cs, LAMBDA call : call[1] \in {"rename", "create", "remove", "start", "stop"})

\* C27: a Recreate that returns nil on an existing container has renamed it, created
\* the replacement and removed the original without its volumes, in that order and
\* nothing else, and leaves one container under the canonical name, the
\* replacement, the original gone under either name; a Recreate whose rename fails
\* has created and removed nothing; on an absent container Recreate only looks it up
C27_RecreateOrder ==
    Returned("Container.Recreate") =>
        LET name == ret.arg[1]
            old  == IdByName(initial.rt, name)
        IN  /\ (old # Nil /\ ret.err = "nil") =>
                  /\ Changes(calls) = <<<<"rename", old>>, <<"create", name>>,
                                        <<"remove", <<old, FALSE>>>>>>
                  /\ old \notin DOMAIN rt
                  /\ IdByName(rt, RenamedName(name, old)) = Nil
                  /\ IdByName(rt, name) = ret.val[1]
                  /\ ret.val[1] \notin DOMAIN initial.rt
                  /\ Cardinality(DOMAIN rt) = Cardinality(DOMAIN initial.rt)
            /\ (calls # <<>> /\ calls[Len(calls)][1] = "rename" /\ ret.err # "nil") =>
                  /\ Changes(calls) = <<<<"rename", old>>>>
                  /\ rt = initial.rt
            /\ (old = Nil /\ ~failed) =>
                  /\ ret.err = "nil"
                  /\ Changes(calls) = <<>>
                  /\ rt = initial.rt

C27_Witness ==
    /\ Returned("Container.Recreate") /\ ret.err = "nil"
    /\ IdByName(initial.rt, ret.arg[1]) # Nil
    /\ IdByName(initial.rt, ret.arg[1]) \notin DOMAIN rt
    /\ IdByName(rt, ret.arg[1]) = ret.val[1]
    /\ Len(Changes(calls)) = 3


\* a container that carries the name a Recreate gave it, the canonical name with
\* a fragment of the ID appended
RenamedContainers(rtv) == {id \in ServiceContainers(rtv) : Len(rtv[id].name) > 2}

\* C28: after a Recreate that failed once the original was renamed, a Service.Create
\* or Service.Up that returns nil leaves a container of the service under the
\* canonical name and none under a renamed identity
C28_RetryRecovers ==
    ((Returned("Create") \/ Returned("Up")) /\ ret.err = "nil" /\ ~failed
        /\ RenamedContainers(initial.rt) # {}) =>
        /\ IdByName(rt, <<"c", 1>>) # Nil
        /\ RenamedContainers(rt) = {}


\* the service of the file extends itself
ExtendsItself(raw, name) ==
    /\ name \in DOMAIN raw /\ "extends" \in DOMAIN raw[name]
    /\ raw[name]["extends"].file = "" /\ raw[name]["extends"].service = name

\* C29: on a file in which a service extends itself MergeServicesV1 returns, with
\* an error of the configuration, and parseV1 does not recurse without end
C29_ExtendsCycleReturns ==
    (Returned("MergeServicesV1") /\ \E name \in DOMAIN ret.arg[1] : ExtendsItself(ret.arg[1], name)) =>
        ret.err \in {"nolookup", "notfound", "notfoundinfile", "nomerge", "constraint"}


\* the loop of MergeServicesV1 run over the services in the order given
RECURSIVE mergeLoop(_, _, _, _, _)
mergeLoop(w, datas, existing, resourceLookup, order) ==
    IF order = <<>> THEN R(w, "nil", datas)
    ELSE Try(parseV1(w, resourceLookup, ComposeFile, datas[Head(order)], datas, MaxDepth),
             datas, LAMBDA p :
         Let(mergeExisting(p.w, existing, Head(order), p.val), LAMBDA m :
         mergeLoop(m.w, [datas EXCEPT ![Head(order)] = m.val], existing, resourceLookup,
                   Tail(order))))

\* the effective configurations MergeServicesV1 returns when its map yields the
\* services in that order, or the error
EffectiveIn(raw, existing, resourceLookup, order) ==
    LET u == Unmarshal(MergeWorld(<<>>), raw, <<>>)
        r == mergeLoop(u.w, u.val, existing, resourceLookup, order)
    IN  IF r.err # "nil" THEN <<r.err>> ELSE Values(r.w.heap, r.val)

\* C30: the effective configurations MergeServicesV1 returns for a file and a set
\* of already-resolved services are those it returns for every order in which the
\* services of the file can be iterated
C30_OrderIndependent ==
    (Returned("MergeServicesV1") /\ ret.err = "nil") =>
        \A order \in RangeOrders(DOMAIN ret.arg[1]) :
            EffectiveIn(ret.arg[1], ret.arg[2], ret.arg[3], order) = ret.val[1].before


\* a runtime call fails in the step
CallFails == (failed' /\ ~failed) \/ faultsLeft' < faultsLeft

\* C31: when a runtime call fails in a turn of the loop of constructContainers, the
\* operation returns an error in that step, so no further instance is attempted;
\* the containers the runtime held before the turn are still there as they were,
\* the turn has added at most the container it was creating, and none of the
\* containers created in the operation has been started
C31_ConstructStopsAtFailure ==
    [][(pc = "construct" /\ loc.n < loc.count /\ CallFails) =>
          /\ pc' = "returned" /\ ret'.err # "nil"
          /\ \A id \in DOMAIN rt : id \in DOMAIN rt' /\ rt'[id] = rt[id]
          /\ Cardinality(DOMAIN rt') <= Cardinality(DOMAIN rt) + 1
          /\ \A id \in DOMAIN rt' \ DOMAIN initial.rt : ~rt'[id].running
          /\ Issued(calls', {"start"}) = {}
      ]_vars

\* Scale(2) on a service without containers: the second create failed, the first
\* instance is in the runtime, not started
C31_Witness ==
    /\ Returned("Scale") /\ ret.arg[1] = 2 /\ ret.err = "fault"
    /\ initial.rt = <<>>
    /\ Cardinality(Issued(calls, {"create"})) = 2
    /\ calls[Len(calls)][1] = "create"
    /\ Cardinality(ServiceContainers(rt)) = 1
    /\ \A id \in ServiceContainers(rt) : ~rt[id].running /\ rt[id].name = <<"c", 1>>

====
